---- MODULE Spec2Model ----
(***************************************************************************)
(* Verification model of three components of the edge-ai-suites tree:      *)
(*   - the robotics image time-synchronizer (ImageSync.hpp),               *)
(*   - the traffic scene-intelligence VLM trigger engine (documented in    *)
(*     traffic-data-analysis-workflow.md),                                 *)
(*   - the smart-classroom session UI (Header.tsx, UploadFilesModal.tsx,   *)
(*     uiSlice, VideoStream.tsx).                                          *)
(* Each component has its own specification over its own variables; the    *)
(* variables of the other components stay at their initial values.         *)
(***************************************************************************)
EXTENDS Integers, Sequences, FiniteSets, TLC

(***************************************************************************)
(* Part A.  ImageSync (ImageSync.hpp lines 18-98)                          *)
(***************************************************************************)

VARIABLES
    stampSec,      \* header.stamp.sec shared by the frames of a run
    counter,       \* ImageSync::counter
    rgb_map,       \* ImageSync::rgb_map    : id -> image
    depth_map,     \* ImageSync::depth_map  : id -> image
    queue_rgb,     \* ImageSync::queue_rgb  : sequence of <<ns, id>>, min first
    queue_depth,   \* ImageSync::queue_depth
    queue_mutex,   \* holder of ImageSync::queue_mutex, or NoThread
    pc,            \* position of each producer thread
    local,         \* per thread: the msg being ingested and its nanoseconds
    ingested,      \* number of frames each producer has ingested so far
    fired,         \* sequence of (rgb image, depth image) handed to callback
    dropped,       \* images that took the discard branch of resolve()
    ub,            \* TRUE once a statement with undefined behaviour ran
    overlap,       \* TRUE: the two producers run concurrently; FALSE: one call at a time
    reentry        \* the call made from inside the pairing callback, if any

syncVars == <<stampSec, counter, rgb_map, depth_map, queue_rgb, queue_depth,
              queue_mutex, pc, local, ingested, fired, dropped, ub, overlap, reentry>>

\* Part B.  VLM trigger engine of the scene-intelligence service
VARIABLES
    vlm_workers,             \* configured capacity of the limiter (VLM_WORKERS)
    minimum_duration,        \* configured minimum_duration_for_consistently_high_traffic_seconds
    vlm_semaphore,           \* free slots of asyncio.Semaphore(VLM_WORKERS)
    now,                     \* wall-clock time in seconds
    advances,                \* number of clock advances so far
    traffic_state,           \* per intersection: "NORMAL" or "HIGH"
    state_change_time,       \* per intersection: time of the last recorded state change
    last_vlm_analysis_time,  \* per intersection: time of the last VLM invocation, or Never
    pending_analysis,        \* per intersection: a VLM call is outstanding
    vlm_task,                \* per intersection: "none", "images" or "calling"
    vlm_calls,               \* per intersection: VLM calls issued so far
    vlm_results,             \* per intersection: number of the call whose analysis is stored, 0 if none
    evaluation,              \* the traffic update just processed: what it saw and decided
    last_outcome             \* the VLM task that just finished, and how it ended

vlmVars == <<vlm_workers, minimum_duration, vlm_semaphore, now, advances, traffic_state,
             state_change_time, last_vlm_analysis_time, pending_analysis, vlm_task,
             vlm_calls, vlm_results, evaluation, last_outcome>>

\* Part C.  Smart-classroom session UI
VARIABLES
    ui,          \* the redux `ui` slice (UIState)
    transcript,  \* the redux `transcript` slice: status and number of tokens
    mindmap,     \* the redux `mindmap` slice: isLoading, finalText, error
    header,      \* HeaderBar component state: errorMsg, monitoringTimer
    modal,       \* the mounted UploadFilesModal: owner, error, loading, monitoringTimer
    tasks,       \* async handler invocations in flight, each at an await
    backend,     \* sessions created, armed 45-minute timers, monitoring, pipelines
    budget,      \* operator actions so far: record clicks, upload modals opened
    hist         \* what the last stop click and the last handleApply call saw and did

uiVars == <<ui, transcript, mindmap, header, modal, tasks, backend, budget, hist>>

\* Part D.  Store of VLM analysis results of the scene-intelligence service
VARIABLES
    store_minutes,     \* wall-clock time of the store, in minutes
    store_advances,    \* number of clock advances so far
    analysis_results,  \* self.vlm_results: per intersection the stored result, or none
    analyses_stored,   \* results stored so far (the next result's number less one)
    api_response       \* the API response just produced: what it covered and included

storeVars == <<store_minutes, store_advances, analysis_results, analyses_stored,
               api_response>>

\* Part E.  setup.sh of the intersection agent and of the route-planning agent
VARIABLES
    script,        \* which setup.sh is being sourced
    argv,          \* its positional arguments
    env,           \* the environment: variable -> value, or unset
    env_before,    \* the environment the script was started with
    tree,          \* the directories and files the script tests for
    sh_pc,         \* the statement the script is at
    exit_status,   \* $? of the last command or function
    commands,      \* external commands run so far, in order
    returned,      \* the script's return status once it has returned
    printed        \* diagnostics the script has printed

setupVars == <<script, argv, env, env_before, tree, sh_pc, exit_status, commands,
               returned, printed>>

\* Part F.  The ui slice of the Redux store taken on its own
VARIABLES
    slice,         \* the slice's state (UIState)
    dispatched     \* the actions dispatched to it so far, in order

sliceVars == <<slice, dispatched>>

vars == <<syncVars, vlmVars, uiVars, storeVars, setupVars, sliceVars>>

\* ---- bounds of the model -------------------------------------------------
MaxFrames == 2
MaxOverlapFrames == 2
NumIntersections == 2
MaxAdvances == 3
MaxClicks == 2
MaxUploads == 1
MaxTokens == 2
MaxStoreAdvances == 3
MaxAnalyses == 2

\* ---- program constants ---------------------------------------------------
acceptable_synchronization_error_nanoseconds == 10000000
DoubleExactSeconds == 9007200
EpochSec == 1700000000

\* ---- quiescent states of the components a specification leaves alone -------
Intersections == 1..NumIntersections
Never == -1
NoEvaluation ==
    [intersection |-> 0, density |-> 0, previous_state |-> "NORMAL",
     pending_before |-> FALSE, triggered |-> FALSE]
NoOutcome == [intersection |-> 0, stage |-> "none", outcome |-> "none"]

VlmStart(workers, duration) ==
    /\ vlm_workers = workers
    /\ minimum_duration = duration
    /\ vlm_semaphore = workers
    /\ now = 0
    /\ advances = 0
    /\ traffic_state = [i \in Intersections |-> "NORMAL"]
    /\ state_change_time = [i \in Intersections |-> Never]
    /\ last_vlm_analysis_time = [i \in Intersections |-> Never]
    /\ pending_analysis = [i \in Intersections |-> FALSE]
    /\ vlm_task = [i \in Intersections |-> "none"]
    /\ vlm_calls = [i \in Intersections |-> 0]
    /\ vlm_results = [i \in Intersections |-> 0]
    /\ evaluation = NoEvaluation
    /\ last_outcome = NoOutcome

VlmIdle == VlmStart(1, 30)

\* The dashboard is not mounted.
UiIdle ==
    /\ ui = "unmounted"
    /\ transcript = "unmounted"
    /\ mindmap = "unmounted"
    /\ header = "unmounted"
    /\ modal = "unmounted"
    /\ tasks = <<>>
    /\ backend = "unmounted"
    /\ budget = "unmounted"
    /\ hist = "unmounted"

\* The result store before the service has stored anything.
StoreIdle ==
    /\ store_minutes = 0
    /\ store_advances = 0
    /\ analysis_results = <<>>
    /\ analyses_stored = 0
    /\ api_response = <<>>

\* No setup script is being sourced.
SliceIdle ==
    /\ slice = "unmounted"
    /\ dispatched = <<>>

SetupIdle ==
    /\ script = "none"
    /\ argv = <<>>
    /\ env = <<>>
    /\ env_before = <<>>
    /\ tree = {}
    /\ sh_pc = "none"
    /\ exit_status = 0
    /\ commands = <<>>
    /\ returned = 0
    /\ printed = {}

SyncIdle ==
    /\ overlap = FALSE
    /\ stampSec = 0
    /\ counter = 0
    /\ rgb_map = [x \in {} |-> 0]
    /\ depth_map = [x \in {} |-> 0]
    /\ queue_rgb = <<>>
    /\ queue_depth = <<>>
    /\ queue_mutex = "none"
    /\ pc = [t \in {"rgb", "depth"} |-> "idle"]
    /\ local = [t \in {"rgb", "depth"} |-> 0]
    /\ ingested = [t \in {"rgb", "depth"} |-> 0]
    /\ fired = <<>>
    /\ dropped = {}
    /\ ub = FALSE
    /\ reentry = 0

Threads == {"rgb", "depth"}
NoThread == "none"
NullImage == [stream |-> "null", nanosec |-> 0, k |-> 0]

\* header.stamp.nanosec values the producers publish: 0, 5, 10 and 15 ms
NanosecInputs == {0, 5000000, 10000000, 14999999, 15000000}
\* header.stamp.sec: simulated time (0) or wall-clock time since the epoch
SecInputs == {0, EpochSec}

\* Spacing of the doubles around sec * 1e9: `sec * 1e9` is a double, exact below
\* 2^53 (sec < 9007200) and doubling its spacing with every further power of two.
RECURSIVE DoubleUlp(_)
DoubleUlp(sec) ==
    IF sec < DoubleExactSeconds THEN 1 ELSE 2 * DoubleUlp(sec \div 2)

\* IEEE-754 round-to-nearest, ties to even, of n to a multiple of ulp.
RoundToUlp(n, ulp) ==
    LET q == n \div ulp
        r == n % ulp
    IN  IF 2 * r < ulp THEN q * ulp
        ELSE IF 2 * r > ulp THEN (q + 1) * ulp
        ELSE IF q % 2 = 0 THEN q * ulp ELSE (q + 1) * ulp

\* Mutant: exact 64-bit integer arithmetic.
StampNanosecondsExact(sec, nanosec) == nanosec

\* u_int64_t nanoseconds = stamp.nanosec + stamp.sec * 1e9, computed in double.
\* The value is kept relative to sec * 1e9, which is itself exactly
\* representable (sec has 31 bits, 5^9 has 21) and a multiple of the spacing.
StampNanoseconds(sec, nanosec) == RoundToUlp(nanosec, DoubleUlp(sec))

\* std::abs<long>(a - b)
AbsDiff(a, b) == IF a >= b THEN a - b ELSE b - a

\* Mutant: tolerance test with <= instead of <.
WithinToleranceLeq(a, b) == AbsDiff(a, b) <= acceptable_synchronization_error_nanoseconds

\* The test of resolve(): |t_rgb - t_depth| < acceptable error.
WithinTolerance(a, b) == AbsDiff(a, b) < acceptable_synchronization_error_nanoseconds

\* priority_queue::push with MyComparator (smallest .first on top); entries
\* with equal .first may end up in either order.
PushPositions(q, e) ==
    {p \in 1..(Len(q) + 1) :
        /\ \A i \in 1..(p - 1) : q[i][1] <= e[1]
        /\ \A i \in p..Len(q) : q[i][1] >= e[1]}

InsertAt(q, p, e) == SubSeq(q, 1, p - 1) \o <<e>> \o SubSeq(q, p, Len(q))

MapErase(m, id) == [x \in (DOMAIN m) \ {id} |-> m[x]]
\* unordered_map::operator[] default-constructs a missing entry (a null pointer)
MapIndex(m, id) == IF id \in DOMAIN m THEN m[id] ELSE NullImage
MapTouch(m, id) == IF id \in DOMAIN m THEN m ELSE [x \in (DOMAIN m) \cup {id} |->
                                                   IF x = id THEN NullImage ELSE m[x]]
MapPut(m, id, v) == [x \in (DOMAIN m) \cup {id} |-> IF x = id THEN v ELSE m[x]]

EmptyMap == [x \in {} |-> NullImage]
NoLocal == [msg |-> NullImage, nanoseconds |-> 0]
\* No call has been made from inside the callback.  Otherwise: the thread
\* whose callback invocation made the call, whether that call is still
\* running, the pair the invocation was handed, and the number of pairs
\* delivered when the call returned.
NoReentry == [outer |-> NoThread, running |-> FALSE,
              pair |-> <<NullImage, NullImage>>, returned_at |-> 0]

SyncStart(concurrent) ==
    /\ overlap = concurrent
    /\ stampSec \in SecInputs
    /\ counter = 0
    /\ rgb_map = EmptyMap
    /\ depth_map = EmptyMap
    /\ queue_rgb = <<>>
    /\ queue_depth = <<>>
    /\ queue_mutex = NoThread
    /\ pc = [t \in Threads |-> "idle"]
    /\ local = [t \in Threads |-> NoLocal]
    /\ ingested = [t \in Threads |-> 0]
    /\ fired = <<>>
    /\ dropped = {}
    /\ ub = FALSE
    /\ reentry = NoReentry

\* Positions of resolve() and of the locked block that read or write the
\* queues or the maps.
LockedPcs == {"c_map", "c_push", "c_inc"}
ResolvePcs == {"r_if", "r_cb", "r_erase_rgb", "r_erase_depth", "r_pop_rgb",
               "r_pop_depth", "d_which", "d_rgb_reset", "d_rgb_erase", "d_rgb_pop",
               "d_depth_reset", "d_depth_erase", "d_depth_pop"}

Goto(t, label) ==
    /\ pc' = [pc EXCEPT ![t] = label]
    /\ UNCHANGED <<overlap, reentry, vlmVars, uiVars, storeVars, setupVars, sliceVars>>

\* Thread t is at statement `label` of a process that is still running, and
\* is not waiting inside the callback for a call made from it to return.
At(t, label) == ~ub /\ pc[t] = label /\ ~(reentry.running /\ reentry.outer = t)

\* callback_rgb / callback_depth entered with a message: line 75 / 89.
Ingest(t, nanosec) ==
    /\ At(t, "idle")
    /\ overlap \/ \A u \in Threads \ {t} : pc[u] = "idle"
    /\ IF overlap
         THEN ingested["rgb"] + ingested["depth"] < MaxOverlapFrames
         ELSE ingested[t] < MaxFrames
    /\ local' = [local EXCEPT ![t] =
                    [msg |-> [stream |-> t, nanosec |-> nanosec, k |-> ingested[t] + 1],
                     nanoseconds |-> StampNanoseconds(stampSec, nanosec)]]
    /\ ingested' = [ingested EXCEPT ![t] = @ + 1]
    /\ Goto(t, "lock")
    /\ UNCHANGED <<stampSec, counter, rgb_map, depth_map, queue_rgb, queue_depth,
                   queue_mutex, fired, dropped, ub>>

\* std::lock_guard<std::mutex> lock(queue_mutex): line 78 / 91.
Lock(t) ==
    /\ At(t, "lock")
    /\ queue_mutex = NoThread
    /\ queue_mutex' = t
    /\ Goto(t, "c_map")
    /\ UNCHANGED <<stampSec, counter, rgb_map, depth_map, queue_rgb, queue_depth,
                   local, ingested, fired, dropped, ub>>

\* rgb_map[counter] = msg / depth_map[counter] = msg: line 79 / 92.
StoreImage(t) ==
    /\ At(t, "c_map")
    /\ IF t = "rgb"
         THEN rgb_map' = MapPut(rgb_map, counter, local[t].msg) /\ UNCHANGED depth_map
         ELSE depth_map' = MapPut(depth_map, counter, local[t].msg) /\ UNCHANGED rgb_map
    /\ Goto(t, "c_push")
    /\ UNCHANGED <<stampSec, counter, queue_rgb, queue_depth, queue_mutex,
                   local, ingested, fired, dropped, ub>>

\* queue.push({nanoseconds, counter}): line 81 / 93.
PushEntry(t) ==
    /\ At(t, "c_push")
    /\ LET e == <<local[t].nanoseconds, counter>>
       IN  IF t = "rgb"
             THEN /\ \E p \in PushPositions(queue_rgb, e) :
                        queue_rgb' = InsertAt(queue_rgb, p, e)
                  /\ UNCHANGED queue_depth
             ELSE /\ \E p \in PushPositions(queue_depth, e) :
                        queue_depth' = InsertAt(queue_depth, p, e)
                  /\ UNCHANGED queue_rgb
    /\ Goto(t, "c_inc")
    /\ UNCHANGED <<stampSec, counter, rgb_map, depth_map, queue_mutex,
                   local, ingested, fired, dropped, ub>>

\* counter++ and the end of the lock_guard scope; resolve() is then called
\* with the mutex released: lines 82-84 / 94-96.
IncrementAndUnlock(t) ==
    /\ At(t, "c_inc")
    /\ counter' = counter + 1
    /\ queue_mutex' = NoThread
    /\ Goto(t, "r_while")
    /\ UNCHANGED <<stampSec, rgb_map, depth_map, queue_rgb, queue_depth,
                   local, ingested, fired, dropped, ub>>

\* while (!(queue_rgb.empty() || queue_depth.empty())): line 48.
WhileTest(t) ==
    /\ At(t, "r_while")
    /\ IF queue_rgb = <<>> \/ queue_depth = <<>>
         THEN Goto(t, "idle")
         ELSE Goto(t, "r_if")
    /\ UNCHANGED <<stampSec, counter, rgb_map, depth_map, queue_rgb, queue_depth,
                   queue_mutex, local, ingested, fired, dropped, ub>>


\* Images a producer has handed in so far.
ImagesOf(t) ==
    {[stream |-> t, nanosec |-> n, k |-> j] : n \in NanosecInputs, j \in 1..ingested[t]}

\* top() or pop() of an empty priority_queue is undefined: the process may
\* stop, or go on to hand any two image pointers (or null) to the callback.
Undefined(t) ==
    /\ ub' = TRUE
    /\ Goto(t, "undefined")
    /\ \/ fired' = fired
       \/ \E a \in ImagesOf("rgb") \cup {NullImage}, b \in ImagesOf("depth") \cup {NullImage} :
              fired' = Append(fired, <<a, b>>)
    /\ UNCHANGED <<stampSec, counter, rgb_map, depth_map, queue_rgb, queue_depth,
                   queue_mutex, local, ingested, dropped>>

BothNonEmpty == queue_rgb # <<>> /\ queue_depth # <<>>

\* if (abs(queue_rgb.top().first - queue_depth.top().first) < acceptable...): lines 49-52.
ToleranceTest(t) ==
    /\ At(t, "r_if")
    /\ IF ~BothNonEmpty THEN Undefined(t)
       ELSE /\ IF WithinTolerance(Head(queue_rgb)[1], Head(queue_depth)[1])
                 THEN Goto(t, "r_cb")
                 ELSE Goto(t, "d_which")
            /\ UNCHANGED <<stampSec, counter, rgb_map, depth_map, queue_rgb, queue_depth,
                           queue_mutex, local, ingested, fired, dropped, ub>>

\* callback(rgb_map[queue_rgb.top().second], depth_map[queue_depth.top().second]): line 53.
FireCallback(t) ==
    /\ At(t, "r_cb")
    /\ IF ~BothNonEmpty THEN Undefined(t)
       ELSE /\ fired' = Append(fired, <<MapIndex(rgb_map, Head(queue_rgb)[2]),
                                        MapIndex(depth_map, Head(queue_depth)[2])>>)
            /\ rgb_map' = MapTouch(rgb_map, Head(queue_rgb)[2])
            /\ depth_map' = MapTouch(depth_map, Head(queue_depth)[2])
            /\ Goto(t, "r_erase_rgb")
            /\ UNCHANGED <<stampSec, counter, queue_rgb, queue_depth,
                           queue_mutex, local, ingested, dropped, ub>>

\* rgb_map.erase(queue_rgb.top().second): line 54.
EraseRgb(t) ==
    /\ At(t, "r_erase_rgb")
    /\ IF queue_rgb = <<>> THEN Undefined(t)
       ELSE /\ rgb_map' = MapErase(rgb_map, Head(queue_rgb)[2])
            /\ Goto(t, "r_erase_depth")
            /\ UNCHANGED <<stampSec, counter, depth_map, queue_rgb, queue_depth,
                           queue_mutex, local, ingested, fired, dropped, ub>>

\* depth_map.erase(queue_depth.top().second): line 55.
EraseDepth(t) ==
    /\ At(t, "r_erase_depth")
    /\ IF queue_depth = <<>> THEN Undefined(t)
       ELSE /\ depth_map' = MapErase(depth_map, Head(queue_depth)[2])
            /\ Goto(t, "r_pop_rgb")
            /\ UNCHANGED <<stampSec, counter, rgb_map, queue_rgb, queue_depth,
                           queue_mutex, local, ingested, fired, dropped, ub>>

\* queue_rgb.pop(): line 56.
PopRgb(t) ==
    /\ At(t, "r_pop_rgb")
    /\ IF queue_rgb = <<>> THEN Undefined(t)
       ELSE /\ queue_rgb' = Tail(queue_rgb)
            /\ Goto(t, "r_pop_depth")
            /\ UNCHANGED <<stampSec, counter, rgb_map, depth_map, queue_depth,
                           queue_mutex, local, ingested, fired, dropped, ub>>

\* queue_depth.pop(), then back to the loop test: line 57.
PopDepth(t) ==
    /\ At(t, "r_pop_depth")
    /\ IF queue_depth = <<>> THEN Undefined(t)
       ELSE /\ queue_depth' = Tail(queue_depth)
            /\ Goto(t, "r_while")
            /\ UNCHANGED <<stampSec, counter, rgb_map, depth_map, queue_rgb,
                           queue_mutex, local, ingested, fired, dropped, ub>>

\* if (queue_rgb.top().first < queue_depth.top().first): line 59.
OlderTest(t) ==
    /\ At(t, "d_which")
    /\ IF ~BothNonEmpty THEN Undefined(t)
       ELSE /\ IF Head(queue_rgb)[1] < Head(queue_depth)[1]
                 THEN Goto(t, "d_rgb_reset")
                 ELSE Goto(t, "d_depth_reset")
            /\ UNCHANGED <<stampSec, counter, rgb_map, depth_map, queue_rgb, queue_depth,
                           queue_mutex, local, ingested, fired, dropped, ub>>

\* rgb_map[queue_rgb.top().second].reset(): line 60.
DiscardRgbReset(t) ==
    /\ At(t, "d_rgb_reset")
    /\ IF queue_rgb = <<>> THEN Undefined(t)
       ELSE /\ dropped' = dropped \cup {MapIndex(rgb_map, Head(queue_rgb)[2])}
            /\ rgb_map' = MapPut(rgb_map, Head(queue_rgb)[2], NullImage)
            /\ Goto(t, "d_rgb_erase")
            /\ UNCHANGED <<stampSec, counter, depth_map, queue_rgb, queue_depth,
                           queue_mutex, local, ingested, fired, ub>>

\* rgb_map.erase(queue_rgb.top().second): line 61.
DiscardRgbErase(t) ==
    /\ At(t, "d_rgb_erase")
    /\ IF queue_rgb = <<>> THEN Undefined(t)
       ELSE /\ rgb_map' = MapErase(rgb_map, Head(queue_rgb)[2])
            /\ Goto(t, "d_rgb_pop")
            /\ UNCHANGED <<stampSec, counter, depth_map, queue_rgb, queue_depth,
                           queue_mutex, local, ingested, fired, dropped, ub>>

\* queue_rgb.pop() followed by a return: resolve() as a single pass.
DiscardRgbPopAndReturn(t) ==
    /\ At(t, "d_rgb_pop")
    /\ IF queue_rgb = <<>> THEN Undefined(t)
       ELSE /\ queue_rgb' = Tail(queue_rgb)
            /\ Goto(t, "idle")
            /\ UNCHANGED <<stampSec, counter, rgb_map, depth_map, queue_depth,
                           queue_mutex, local, ingested, fired, dropped, ub>>

\* queue_rgb.pop(): line 62.
DiscardRgbPop(t) ==
    /\ At(t, "d_rgb_pop")
    /\ IF queue_rgb = <<>> THEN Undefined(t)
       ELSE /\ queue_rgb' = Tail(queue_rgb)
            /\ Goto(t, "r_while")
            /\ UNCHANGED <<stampSec, counter, rgb_map, depth_map, queue_depth,
                           queue_mutex, local, ingested, fired, dropped, ub>>

\* depth_map[queue_depth.top().second].reset(): line 64.
DiscardDepthReset(t) ==
    /\ At(t, "d_depth_reset")
    /\ IF queue_depth = <<>> THEN Undefined(t)
       ELSE /\ dropped' = dropped \cup {MapIndex(depth_map, Head(queue_depth)[2])}
            /\ depth_map' = MapPut(depth_map, Head(queue_depth)[2], NullImage)
            /\ Goto(t, "d_depth_erase")
            /\ UNCHANGED <<stampSec, counter, rgb_map, queue_rgb, queue_depth,
                           queue_mutex, local, ingested, fired, ub>>

\* depth_map.erase(queue_depth.top().second): line 65.
DiscardDepthErase(t) ==
    /\ At(t, "d_depth_erase")
    /\ IF queue_depth = <<>> THEN Undefined(t)
       ELSE /\ depth_map' = MapErase(depth_map, Head(queue_depth)[2])
            /\ Goto(t, "d_depth_pop")
            /\ UNCHANGED <<stampSec, counter, rgb_map, queue_rgb, queue_depth,
                           queue_mutex, local, ingested, fired, dropped, ub>>

\* queue_depth.pop(): line 66.
DiscardDepthPop(t) ==
    /\ At(t, "d_depth_pop")
    /\ IF queue_depth = <<>> THEN Undefined(t)
       ELSE /\ queue_depth' = Tail(queue_depth)
            /\ Goto(t, "r_while")
            /\ UNCHANGED <<stampSec, counter, rgb_map, depth_map, queue_rgb,
                           queue_mutex, local, ingested, fired, dropped, ub>>

\* One statement of callback_rgb / callback_depth executed by a producer.
NextSync ==
    \/ \E t \in Threads, n \in NanosecInputs : Ingest(t, n)
    \/ \E t \in Threads : Lock(t)
    \/ \E t \in Threads : StoreImage(t)
    \/ \E t \in Threads : PushEntry(t)
    \/ \E t \in Threads : IncrementAndUnlock(t)
    \/ \E t \in Threads : WhileTest(t)
    \/ \E t \in Threads : ToleranceTest(t)
    \/ \E t \in Threads : FireCallback(t)
    \/ \E t \in Threads : EraseRgb(t)
    \/ \E t \in Threads : EraseDepth(t)
    \/ \E t \in Threads : PopRgb(t)
    \/ \E t \in Threads : PopDepth(t)
    \/ \E t \in Threads : OlderTest(t)
    \/ \E t \in Threads : DiscardRgbReset(t)
    \/ \E t \in Threads : DiscardRgbErase(t)
    \/ \E t \in Threads : DiscardRgbPop(t)
    \/ \E t \in Threads : DiscardDepthReset(t)
    \/ \E t \in Threads : DiscardDepthErase(t)
    \/ \E t \in Threads : DiscardDepthPop(t)

\* The callback invoked at line 53 by thread t calls callback_rgb /
\* callback_depth (the one of the other stream, u) before it returns: lines
\* 73-75 / 87-89 entered on t's stack.  t goes on at line 54 when the call
\* has returned.
CallbackReenters(t, u, nanosec) ==
    /\ ~overlap
    /\ At(t, "r_erase_rgb")
    /\ reentry = NoReentry
    /\ u # t
    /\ pc[u] = "idle"
    /\ ingested[u] < MaxFrames
    /\ reentry' = [outer |-> t, running |-> TRUE, pair |-> fired[Len(fired)],
                   returned_at |-> 0]
    /\ local' = [local EXCEPT ![u] =
                    [msg |-> [stream |-> u, nanosec |-> nanosec, k |-> ingested[u] + 1],
                     nanoseconds |-> StampNanoseconds(stampSec, nanosec)]]
    /\ ingested' = [ingested EXCEPT ![u] = @ + 1]
    /\ pc' = [pc EXCEPT ![u] = "lock"]
    /\ UNCHANGED <<stampSec, counter, rgb_map, depth_map, queue_rgb, queue_depth,
                   queue_mutex, fired, dropped, ub, overlap, vlmVars, uiVars,
                   storeVars, setupVars, sliceVars>>

\* The call made from the callback has returned (its resolve() left the
\* loop at line 48), and so does the callback: t is back at line 54.
CallbackReturns ==
    /\ ~ub
    /\ reentry.running
    /\ \A u \in Threads \ {reentry.outer} : pc[u] = "idle"
    /\ reentry' = [reentry EXCEPT !.running = FALSE, !.returned_at = Len(fired)]
    /\ UNCHANGED <<stampSec, counter, rgb_map, depth_map, queue_rgb, queue_depth,
                   queue_mutex, pc, local, ingested, fired, dropped, ub, overlap,
                   vlmVars, uiVars, storeVars, setupVars, sliceVars>>

\* One statement of a producer, or of a call made from inside the callback.
NextSyncReentrant ==
    \/ NextSync
    \/ \E t \in Threads, u \in Threads, n \in NanosecInputs : CallbackReenters(t, u, n)
    \/ CallbackReturns

\* Two producer threads run callback_rgb and callback_depth concurrently.
InitSync == SyncStart(TRUE) /\ VlmIdle /\ UiIdle /\ StoreIdle /\ SetupIdle /\ SliceIdle
SpecSync == InitSync /\ [][NextSync]_vars
\* The ingest calls follow one another: a call starts when no other is running.
InitSyncSeq == SyncStart(FALSE) /\ VlmIdle /\ UiIdle /\ StoreIdle /\ SetupIdle /\ SliceIdle
SpecSyncSeq == InitSyncSeq /\ [][NextSync]_vars
\* One call at a time, with a callback that may call back into ImageSync once.
SpecSyncReentrant == InitSyncSeq /\ [][NextSyncReentrant]_vars

(***************************************************************************)
(* Claims on ImageSync                                                     *)
(***************************************************************************)

\* C1: every read or mutation of queue_rgb, queue_depth, rgb_map and depth_map,
\* the pops and erases of resolve() included, happens with queue_mutex held by
\* the thread that performs it.
C1_MutationsSerialized ==
    \A t \in Threads : pc[t] \in (LockedPcs \cup ResolvePcs) => queue_mutex = t

\* C2: the pairing callback is only ever invoked with a colour and a depth image
\* whose timestamps sec*1e9 + nanosec differ by strictly less than 1e7 ns.
C2_FiredOnlyWithinTolerance ==
    \A i \in 1..Len(fired) :
        AbsDiff(fired[i][1].nanosec, fired[i][2].nanosec)
            < acceptable_synchronization_error_nanoseconds

(***************************************************************************)
(* Part B.  VLM trigger engine (traffic-data-analysis-workflow.md 56-262)  *)
(* The service code is not part of the tree; the engine is modelled from   *)
(* the documented gates and workflow.                                      *)
(***************************************************************************)

\* ---- configuration ---------------------------------------------------------
high_density_threshold == 5
cooldown_minutes == 1
DefaultMinimumDuration == 30
DefaultVlmWorkers == 4

\* The largest directional density of an update: below, at and above the threshold.
Densities == {3, 5, 6}
\* Seconds between two events.
ClockSteps == {29, 30}
\* MINIMUM_DURATION_FOR_CONSISTENTLY_HIGH_TRAFFIC_SECONDS: none, or the default.
MinimumDurations == {0, DefaultMinimumDuration}
\* VLM_WORKERS: one worker (setup.sh) or the documented default.
WorkerCounts == {1, DefaultVlmWorkers}
Outcomes == {"success", "failure", "timeout"}

\* Gate 1: a direction exceeds the threshold.
ThresholdGate(density) == density > high_density_threshold

CoarseState(density) == IF ThresholdGate(density) THEN "HIGH" ELSE "NORMAL"

\* Mutant: the gate passes whenever traffic is high.
StateChangeGateWhileHigh(previous_state, current_state) == current_state = "HIGH"

\* Gate 2: previous_state == NORMAL and current_state == HIGH.
StateChangeGate(previous_state, current_state) ==
    previous_state = "NORMAL" /\ current_state = "HIGH"

\* Gate 3: time_in_high_state >= minimum_duration.
PersistenceGate(t, change_time, duration) == t - change_time >= duration

\* Mutant: the cooldown must have been exceeded, not just reached.
CooldownGateStrict(t, last_time) ==
    last_time = Never \/ t - last_time > cooldown_minutes * 60

\* Gate 4: time_since_last >= cooldown_minutes * 60; nothing to wait for before
\* the first analysis.
CooldownGate(t, last_time) ==
    last_time = Never \/ t - last_time >= cooldown_minutes * 60

\* Mutant: the pending flag is not consulted.
ConcurrencyGateOpen(pending) == TRUE

\* Gate 5: not intersection_state.pending_analysis.
ConcurrencyGate(pending) == ~pending

\* Mutant: the flag is reset on the success path only.
PendingAfterSuccessOnly(outcome) == outcome # "success"

\* Reset pending_analysis = False in the finally block, whatever the outcome.
PendingAfter(outcome) == FALSE

\* Mutant: the slot is given back on the success path only.
ReleaseOnSuccessOnly(slots, outcome) == IF outcome = "success" THEN slots + 1 ELSE slots

\* Release Semaphore Slot, on every path out of the call.
Release(slots, outcome) == slots + 1

SyncAndUiUnchanged == UNCHANGED <<syncVars, uiVars, storeVars, setupVars, sliceVars>>

\* One traffic update of intersection i: the five gates in order, then the
\* new coarse state is stored.
TrafficUpdate(i, density) ==
    LET previous_state == traffic_state[i]
        current_state == CoarseState(density)
        changed == StateChangeGate(previous_state, current_state)
        recorded == IF changed THEN now ELSE state_change_time[i]
        trigger == /\ ThresholdGate(density)
                   /\ changed
                   /\ PersistenceGate(now, recorded, minimum_duration)
                   /\ CooldownGate(now, last_vlm_analysis_time[i])
                   /\ ConcurrencyGate(pending_analysis[i])
    IN  /\ traffic_state' = [traffic_state EXCEPT ![i] = current_state]
        /\ state_change_time' = [state_change_time EXCEPT ![i] = recorded]
        /\ evaluation' =
               [intersection |-> i, density |-> density, previous_state |-> previous_state,
                pending_before |-> pending_analysis[i], triggered |-> trigger]
        /\ IF trigger
             THEN /\ pending_analysis' = [pending_analysis EXCEPT ![i] = TRUE]
                  /\ last_vlm_analysis_time' = [last_vlm_analysis_time EXCEPT ![i] = now]
                  /\ vlm_task' = [vlm_task EXCEPT ![i] = "images"]
                  /\ vlm_calls' = [vlm_calls EXCEPT ![i] = @ + 1]
             ELSE UNCHANGED <<pending_analysis, last_vlm_analysis_time, vlm_task, vlm_calls>>
        /\ last_outcome' = NoOutcome
        /\ UNCHANGED <<vlm_workers, minimum_duration, vlm_semaphore, now, advances,
                       vlm_results>>
        /\ SyncAndUiUnchanged

\* The wall clock moves on.
AdvanceTime(d) ==
    /\ advances < MaxAdvances
    /\ now' = now + d
    /\ advances' = advances + 1
    /\ evaluation' = NoEvaluation
    /\ last_outcome' = NoOutcome
    /\ UNCHANGED <<vlm_workers, minimum_duration, vlm_semaphore, traffic_state,
                   state_change_time, last_vlm_analysis_time, pending_analysis, vlm_task,
                   vlm_calls, vlm_results>>
    /\ SyncAndUiUnchanged

\* Acquire VLM Semaphore Slot: the task leaves the image request and starts
\* the call once a slot is free.
AcquireSlot(i) ==
    /\ vlm_task[i] = "images"
    /\ vlm_semaphore > 0
    /\ vlm_semaphore' = vlm_semaphore - 1
    /\ vlm_task' = [vlm_task EXCEPT ![i] = "calling"]
    /\ evaluation' = NoEvaluation
    /\ last_outcome' = NoOutcome
    /\ UNCHANGED <<vlm_workers, minimum_duration, now, advances, traffic_state,
                   state_change_time, last_vlm_analysis_time, pending_analysis,
                   vlm_calls, vlm_results>>
    /\ SyncAndUiUnchanged

\* The task fails before it holds a slot (the camera images never arrive).
ImagesFail(i, outcome) ==
    /\ vlm_task[i] = "images"
    /\ outcome # "success"
    /\ vlm_task' = [vlm_task EXCEPT ![i] = "none"]
    /\ pending_analysis' = [pending_analysis EXCEPT ![i] = PendingAfter(outcome)]
    /\ last_outcome' = [intersection |-> i, stage |-> "images", outcome |-> outcome]
    /\ evaluation' = NoEvaluation
    /\ UNCHANGED <<vlm_workers, minimum_duration, vlm_semaphore, now, advances,
                   traffic_state, state_change_time, last_vlm_analysis_time,
                   vlm_calls, vlm_results>>
    /\ SyncAndUiUnchanged

\* The VLM call returns: store the analysis on success, release the slot and
\* reset the flag on every outcome.
VlmComplete(i, outcome) ==
    /\ vlm_task[i] = "calling"
    /\ vlm_task' = [vlm_task EXCEPT ![i] = "none"]
    /\ vlm_results' = IF outcome = "success"
                        THEN [vlm_results EXCEPT ![i] = vlm_calls[i]]
                        ELSE vlm_results
    /\ vlm_semaphore' = Release(vlm_semaphore, outcome)
    /\ pending_analysis' = [pending_analysis EXCEPT ![i] = PendingAfter(outcome)]
    /\ last_outcome' = [intersection |-> i, stage |-> "calling", outcome |-> outcome]
    /\ evaluation' = NoEvaluation
    /\ UNCHANGED <<vlm_workers, minimum_duration, now, advances, traffic_state,
                   state_change_time, last_vlm_analysis_time, vlm_calls>>
    /\ SyncAndUiUnchanged

NextVlm ==
    \/ \E i \in Intersections, density \in Densities : TrafficUpdate(i, density)
    \/ \E d \in ClockSteps : AdvanceTime(d)
    \/ \E i \in Intersections : AcquireSlot(i)
    \/ \E i \in Intersections, outcome \in Outcomes : ImagesFail(i, outcome)
    \/ \E i \in Intersections, outcome \in Outcomes : VlmComplete(i, outcome)

InitVlm ==
    /\ \E workers \in WorkerCounts, duration \in MinimumDurations : VlmStart(workers, duration)
    /\ SyncIdle
    /\ UiIdle
    /\ StoreIdle
    /\ SetupIdle
    /\ SliceIdle

SpecVlm == InitVlm /\ [][NextVlm]_vars

(***************************************************************************)
(* Claims on the VLM trigger engine                                        *)
(***************************************************************************)

\* The traffic update just processed was for intersection i.
Evaluated(i) == evaluation.intersection = i

\* The cooldown gate as the update just processed saw it: a triggering update
\* has since overwritten last_vlm_analysis_time, and can only have passed it.
CooldownWasOpen(i) ==
    evaluation.triggered \/ CooldownGate(now, last_vlm_analysis_time[i])

C5_OneCallPerIntersection ==
    /\ evaluation.triggered => ~evaluation.pending_before
    /\ \A i \in Intersections : pending_analysis[i] <=> vlm_task[i] # "none"
    /\ \A i \in Intersections : last_outcome.intersection = i => ~pending_analysis[i]
    /\ \A i \in Intersections :
           (/\ Evaluated(i)
            /\ StateChangeGate(evaluation.previous_state, CoarseState(evaluation.density))
            /\ PersistenceGate(now, state_change_time[i], minimum_duration)
            /\ CooldownWasOpen(i)
            /\ ~evaluation.pending_before)
               => evaluation.triggered

\* An intersection's second VLM call has just been issued although its first
\* one stored no analysis (it failed or timed out).
C5_Witness ==
    \E i \in Intersections :
        /\ Evaluated(i)
        /\ evaluation.triggered
        /\ vlm_calls[i] = 2
        /\ vlm_results[i] = 0
        /\ pending_analysis[i]

CallsInProgress == {i \in Intersections : vlm_task[i] = "calling"}

\* C6: the VLM calls in progress never outnumber vlm_workers, and the free
\* slots of the limiter are exactly vlm_workers less the calls in progress, so
\* a slot is back whichever way a call ends and all are free when none runs.
C6_WorkerCeiling ==
    /\ Cardinality(CallsInProgress) <= vlm_workers
    /\ vlm_semaphore = vlm_workers - Cardinality(CallsInProgress)

\* With a single worker, a call that held the slot has just failed while
\* another intersection was waiting for it: the slot is free again.
C6_Witness ==
    /\ vlm_workers = 1
    /\ last_outcome.stage = "calling"
    /\ last_outcome.outcome = "failure"
    /\ vlm_semaphore = 1
    /\ \E j \in Intersections : vlm_task[j] = "images"


(***************************************************************************)
(* Part C.  Smart-classroom session UI                                     *)
(*   uiSlice (UploadFilesModal.tsx 546-955), HeaderBar (Header.tsx),       *)
(*   UploadFilesModal (UploadFilesModal.tsx 1-545),                        *)
(*   VideoStream (ImageSync.hpp 100-413).                                  *)
(* A session id is a positive number, 0 stands for null.  A handler runs   *)
(* from one await to the next in one step; the store is rendered and the   *)
(* components' effects run at the end of every step.                       *)
(***************************************************************************)

Pipelines == {"front", "back", "content"}
\* Camera sources found in localStorage when the header mounts.
CameraConfigs == {{}, {"front"}}
\* Video files picked in the upload modal.
VideoSelections == {{}, {"back", "content"}}

initialState ==
    [aiProcessing |-> FALSE, summaryEnabled |-> FALSE, summaryLoading |-> FALSE,
     mindmapEnabled |-> FALSE, mindmapLoading |-> FALSE, activeTab |-> "transcripts",
     autoSwitched |-> FALSE, autoSwitchedToMindmap |-> FALSE, sessionId |-> 0,
     videoSessionId |-> 0, uploadedAudioPath |-> "null", shouldStartSummary |-> FALSE,
     shouldStartMindmap |-> FALSE, projectLocation |-> "storage/",
     activeStream |-> "null", frontCamera |-> "", backCamera |-> "", boardCamera |-> "",
     frontCameraStream |-> "", backCameraStream |-> "", boardCameraStream |-> "",
     videoAnalyticsLoading |-> FALSE, videoAnalyticsActive |-> FALSE,
     processingMode |-> "null", audioStatus |-> "idle", videoStatus |-> "idle",
     hasAudioDevices |-> TRUE, audioDevicesLoading |-> FALSE, isRecording |-> FALSE,
     justStoppedRecording |-> FALSE, videoAnalyticsStopping |-> FALSE,
     hasUploadedVideoFiles |-> FALSE]

\* ---- reducers of uiSlice: state -> state ------------------------------------
\* setActiveStream, setProcessingMode, setAudioStatus, setVideoStatus,
\* setJustStoppedRecording and the set<X>CameraStream reducers assign one field.
SetField(s, field, value) == [s EXCEPT ![field] = value]

StreamField(name) ==
    CASE name = "front" -> "frontCameraStream"
      [] name = "back" -> "backCameraStream"
      [] name = "content" -> "boardCameraStream"

RECURSIVE SetStreams(_, _, _)
SetStreams(s, names, value) ==
    IF names = {} THEN s
    ELSE LET n == CHOOSE x \in names : TRUE
         IN  SetStreams(SetField(s, StreamField(n), value), names \ {n}, value)

HasCameraSettings(s) == s.frontCamera # "" \/ s.backCamera # "" \/ s.boardCamera # ""

startProcessing(s) ==
    [s EXCEPT !.aiProcessing = TRUE, !.summaryEnabled = FALSE, !.summaryLoading = FALSE,
              !.mindmapEnabled = FALSE, !.mindmapLoading = FALSE,
              !.activeTab = "transcripts", !.autoSwitched = FALSE,
              !.autoSwitchedToMindmap = FALSE, !.sessionId = 0,
              !.uploadedAudioPath = "null", !.shouldStartSummary = FALSE,
              !.shouldStartMindmap = FALSE, !.videoAnalyticsLoading = FALSE,
              !.videoAnalyticsActive = FALSE]

processingFailed(s) ==
    [s EXCEPT !.aiProcessing = FALSE, !.summaryLoading = FALSE, !.mindmapLoading = FALSE,
              !.videoAnalyticsLoading = FALSE, !.videoAnalyticsActive = FALSE,
              !.processingMode = "null", !.audioStatus = "error",
              !.videoStatus = "failed", !.isRecording = FALSE,
              !.videoAnalyticsStopping = FALSE]

\* A reducer that switches to the summary tab every time.
transcriptionCompleteAlways(s) ==
    [s EXCEPT !.summaryEnabled = TRUE, !.summaryLoading = TRUE,
              !.shouldStartSummary = TRUE, !.audioStatus = "summarizing",
              !.activeTab = "summary", !.autoSwitched = TRUE]

transcriptionComplete(s) ==
    [s EXCEPT !.summaryEnabled = TRUE, !.summaryLoading = TRUE,
              !.shouldStartSummary = TRUE, !.audioStatus = "summarizing",
              !.activeTab = IF s.autoSwitched THEN @ ELSE "summary",
              !.autoSwitched = TRUE]

setUploadedAudioPath(s, path) ==
    [s EXCEPT !.uploadedAudioPath = path,
              !.audioStatus = IF path = "MICROPHONE" THEN "recording"
                              ELSE IF path # "" THEN "processing" ELSE @]

setSessionId(s, v) == IF v # 0 THEN [s EXCEPT !.sessionId = v] ELSE s

firstSummaryToken(s) == [s EXCEPT !.summaryLoading = FALSE, !.audioStatus = "summarizing"]

summaryDone(s) ==
    [s EXCEPT !.aiProcessing = FALSE, !.mindmapEnabled = TRUE, !.mindmapLoading = TRUE,
              !.shouldStartMindmap = TRUE, !.audioStatus = "mindmapping",
              !.activeTab = IF s.autoSwitchedToMindmap THEN @ ELSE "mindmap",
              !.autoSwitchedToMindmap = TRUE]

mindmapSuccess(s) ==
    [s EXCEPT !.mindmapLoading = FALSE, !.shouldStartMindmap = FALSE,
              !.audioStatus = "complete"]

mindmapFailed(s) ==
    [s EXCEPT !.mindmapLoading = FALSE, !.shouldStartMindmap = FALSE,
              !.audioStatus = "error"]

startStream(s) == [s EXCEPT !.activeStream = "all", !.videoStatus = "streaming"]

setVideoAnalyticsLoading(s, b) ==
    [s EXCEPT !.videoAnalyticsLoading = b,
              !.videoStatus = IF b THEN "starting" ELSE @]

setVideoAnalyticsActive(s, b) ==
    IF b THEN [s EXCEPT !.videoAnalyticsActive = TRUE, !.videoStatus = "streaming",
                        !.videoAnalyticsLoading = FALSE]
    ELSE [s EXCEPT !.videoAnalyticsActive = FALSE,
                   !.videoStatus = IF s.videoAnalyticsLoading THEN @ ELSE "ready"]

\* localStorage holds a source for the cameras in `stored`.
loadCameraSettingsFromStorage(s, stored) ==
    [s EXCEPT !.frontCamera = IF "front" \in stored THEN "rtsp://front" ELSE @,
              !.backCamera = IF "back" \in stored THEN "rtsp://back" ELSE @,
              !.boardCamera = IF "content" \in stored THEN "rtsp://board" ELSE @,
              !.videoStatus = IF stored # {} THEN "ready" ELSE "no-config"]

setHasAudioDevices(s, b) ==
    [s EXCEPT !.hasAudioDevices = b, !.audioStatus = IF b THEN "ready" ELSE "no-devices"]

setAudioDevicesLoading(s, b) ==
    [s EXCEPT !.audioDevicesLoading = b, !.audioStatus = IF b THEN "checking" ELSE @]

setIsRecording(s, b) ==
    IF b THEN [s EXCEPT !.isRecording = TRUE, !.justStoppedRecording = FALSE,
                        !.audioStatus = IF s.hasAudioDevices THEN "recording" ELSE @,
                        !.videoStatus = IF @ = "ready" THEN "starting" ELSE @]
    ELSE [s EXCEPT !.isRecording = FALSE, !.justStoppedRecording = TRUE]

setVideoAnalyticsStopping(s, b) ==
    [s EXCEPT !.videoAnalyticsStopping = b,
              !.videoStatus = IF b THEN "stopping" ELSE @]

\* A reducer that leaves audioStatus alone.
startTranscriptionIgnored(s) == s

startTranscription(s) == [s EXCEPT !.audioStatus = "transcribing"]

setHasUploadedVideoFiles(s, b) ==
    [s EXCEPT !.hasUploadedVideoFiles = b,
              !.videoStatus = IF b /\ @ = "no-config" THEN "ready" ELSE @]

\* Mutant: Object.assign(state, initialState) without the restore.
resetFlowAll(s) == initialState

resetFlow(s) ==
    [initialState EXCEPT
        !.hasAudioDevices = s.hasAudioDevices,
        !.audioDevicesLoading = s.audioDevicesLoading,
        !.frontCamera = s.frontCamera,
        !.backCamera = s.backCamera,
        !.boardCamera = s.boardCamera,
        !.audioStatus = IF s.audioDevicesLoading THEN "checking"
                        ELSE IF s.hasAudioDevices THEN "ready" ELSE "no-devices",
        !.videoStatus = IF HasCameraSettings(s) THEN "ready" ELSE "no-config"]

\* ---- slices whose code is not in the tree (transcriptSlice, mindmapSlice) ----
resetTranscript == [status |-> "idle", tokens |-> 0]
clearMindmap == [isLoading |-> FALSE, finalText |-> FALSE, error |-> FALSE]

\* ---- values the components derive at render ---------------------------------
\* Header.tsx hasVideoCapability
HasVideoCapability(s) == HasCameraSettings(s) \/ s.hasUploadedVideoFiles

MindmapNotReady(s, m) ==
    s.mindmapEnabled /\ (s.mindmapLoading \/ m.isLoading \/ ~m.finalText)

\* Header.tsx isRecordingDisabled
IsRecordingDisabled(s, t, m) ==
    IF s.isRecording THEN FALSE
    ELSE \/ s.audioDevicesLoading
         \/ (~s.hasAudioDevices /\ ~HasVideoCapability(s))
         \/ s.aiProcessing
         \/ t.status = "streaming"
         \/ s.summaryLoading
         \/ MindmapNotReady(s, m)
         \/ s.videoAnalyticsStopping
         \/ s.videoAnalyticsLoading

\* Header.tsx isUploadDisabled
IsUploadDisabled(s, t, m) ==
    \/ s.isRecording
    \/ t.status = "streaming"
    \/ s.aiProcessing
    \/ s.summaryLoading
    \/ MindmapNotReady(s, m)
    \/ s.videoAnalyticsStopping
    \/ s.videoAnalyticsLoading

\* VideoStream: the pipelines whose stream handle is a playable URL (the
\* backend's handles are .m3u8 URLs, the cleared handle is the empty string).
AvailableStreams(s) == {n \in Pipelines : s[StreamField(n)] # ""}

\* VideoStream getStreamStatus()
StreamStatus(s, t) ==
    LET currentlyRecording == \/ s.aiProcessing
                              \/ s.uploadedAudioPath = "MICROPHONE"
                              \/ t.status = "streaming"
                              \/ s.videoAnalyticsActive
        valid == AvailableStreams(s) # {}
    IN  IF s.videoAnalyticsLoading THEN "loading"
        ELSE IF s.videoAnalyticsActive /\ valid THEN "active"
        ELSE IF s.videoStatus \in {"starting", "streaming"} THEN "loading"
        ELSE IF s.videoStatus = "failed" /\ currentlyRecording THEN "video_failed"
        ELSE IF currentlyRecording /\ valid /\ ~s.videoAnalyticsActive THEN "video_failed"
        ELSE IF currentlyRecording /\ ~valid /\ ~s.videoAnalyticsActive THEN "audio_only"
        ELSE "inactive"

\* ---- effects that run after a render -----------------------------------------
\* Header.tsx: keep videoStatus and the video capability in step.
VideoStatusEffect(s) ==
    IF HasVideoCapability(s) /\ s.videoStatus = "no-config" THEN SetField(s, "videoStatus", "ready")
    ELSE IF ~HasVideoCapability(s) /\ s.videoStatus # "no-config"
           THEN SetField(s, "videoStatus", "no-config")
    ELSE s

\* VideoStream: choose the active view when the handles or the active flag change.
ActiveStreamEffect(old, s) ==
    IF /\ old.frontCameraStream = s.frontCameraStream
       /\ old.backCameraStream = s.backCameraStream
       /\ old.boardCameraStream = s.boardCameraStream
       /\ old.videoAnalyticsActive = s.videoAnalyticsActive
      THEN s
    ELSE IF AvailableStreams(s) # {} /\ s.videoAnalyticsActive
      THEN IF Cardinality(AvailableStreams(s)) > 1
             THEN SetField(s, "activeStream", "all")
             ELSE SetField(s, "activeStream", CHOOSE n \in AvailableStreams(s) : TRUE)
    ELSE IF ~s.videoAnalyticsActive THEN SetField(s, "activeStream", "null")
    ELSE s

\* The store after the dispatches of a step have been rendered.
Rendered(old, s) == VideoStatusEffect(ActiveStreamEffect(old, s))

\* ---- component state and bookkeeping ------------------------------------------
ClosedModal ==
    [open |-> FALSE, owner |-> "none", inst |-> 0, error |-> "none",
     loading |-> FALSE, monitoringTimer |-> 0]

NoTask ==
    [kind |-> "none", pc |-> "none", session |-> 0, mic |-> FALSE, cap |-> FALSE,
     cams |-> {}, timer |-> 0, path |-> "null", active |-> FALSE, audio |-> FALSE,
     inst |-> 0, sentFirst |-> FALSE]

NoStop ==
    [stopPath |-> "none", wasRecordingAudio |-> FALSE, audioBefore |-> "none",
     audioAfterClick |-> "none", stopDone |-> FALSE, audioAtDone |-> "none",
     session |-> 0, videoStopSent |-> FALSE]

TaskIds == 1..Len(tasks)
Without(k) == SubSeq(tasks, 1, k - 1) \o SubSeq(tasks, k + 1, Len(tasks))
ConfiguredCameras(s) ==
    {n \in Pipelines : s[CASE n = "front" -> "frontCamera"
                           [] n = "back" -> "backCamera"
                           [] n = "content" -> "boardCamera"] # ""}

SyncAndVlmUnchanged == UNCHANGED <<syncVars, vlmVars, storeVars, setupVars, sliceVars>>

\* setState of a modal that may have been unmounted while its handler ran.
ModalSet(m, inst, field, value) ==
    IF m.open /\ m.inst = inst THEN [m EXCEPT ![field] = value] ELSE m

\* stopMonitoring() as the backend sees it.
stopMonitoring(b) == [b EXCEPT !.monitoring = 0]

\* startMonitoring(session) answered, and the 45-minute timer armed.
MonitoringStarted(b, session) ==
    [b EXCEPT !.monitoring = session, !.timers = @ \cup {session}]

\* Header.tsx 140-149: the cleanup of the effect on [monitoringTimer] runs with
\* the timer of the previous render when the header's timer is replaced.
MonitoringCleanup(b, old, new) ==
    IF old # 0 /\ old # new
      THEN stopMonitoring([b EXCEPT !.timers = @ \ {old}])
      ELSE b

\* UploadFilesModal.tsx 428-441: the modal's cleanup clears its own timer.
ModalCleanup(b, m) ==
    IF m.open /\ m.monitoringTimer # 0
      THEN [b EXCEPT !.timers = @ \ {m.monitoringTimer}]
      ELSE b

\* ---- HeaderBar ------------------------------------------------------------------
\* Header.tsx 105-129: the device probe started at mount is answered.
DevicesChecked(hasDevices) ==
    /\ ui.audioDevicesLoading
    /\ ui' = Rendered(ui, setAudioDevicesLoading(setHasAudioDevices(ui, hasDevices), FALSE))
    /\ UNCHANGED <<transcript, mindmap, header, modal, tasks, backend, budget, hist>>
    /\ SyncAndVlmUnchanged

\* Header.tsx 131-138: the 2 s timer of the just-stopped flag.
JustStoppedExpires ==
    /\ ui.justStoppedRecording
    /\ ui' = Rendered(ui, SetField(ui, "justStoppedRecording", FALSE))
    /\ UNCHANGED <<transcript, mindmap, header, modal, tasks, backend, budget, hist>>
    /\ SyncAndVlmUnchanged

\* startVideoAnalyticsInBackground up to its await (Header.tsx 341-375).
StartVideoRequest(s, t) ==
    IF t.cams = {}
      THEN [ui |-> SetField(setVideoAnalyticsActive(setVideoAnalyticsLoading(s, FALSE), FALSE),
                            "videoStatus", "no-config"),
            await |-> FALSE]
      ELSE [ui |-> SetField(setVideoAnalyticsLoading(s, TRUE), "videoStatus", "starting"),
            await |-> TRUE]

\* handleRecordingToggle, start path after the monitoring try block (490-506).
AfterMonitoring(s, t) ==
    LET s1 == IF t.mic THEN startTranscription(setUploadedAudioPath(s, "MICROPHONE")) ELSE s
        s2 == setIsRecording(s1, TRUE)
    IN  IF t.cap THEN StartVideoRequest(s2, t)
        ELSE [ui |-> SetField(s2, "videoStatus", "no-config"), await |-> FALSE]

\* handleRecordingToggle, start path up to `await createSession()` (444-466).
\* An open modal covers the page: the header is not clickable under it.
ToggleOn ==
    /\ ~modal.open
    /\ ~ui.isRecording
    /\ ~IsRecordingDisabled(ui, transcript, mindmap)
    /\ budget.clicks < MaxClicks
    /\ LET s1 == SetField(resetFlow(ui), "justStoppedRecording", FALSE)
           s2 == IF ui.hasAudioDevices
                   THEN SetField(SetField(startProcessing(s1), "processingMode", "microphone"),
                                 "audioStatus", "recording")
                   ELSE SetField(s1, "processingMode", "video-only")
       IN  /\ ui' = Rendered(ui, s2)
           /\ tasks' = Append(tasks, [NoTask EXCEPT !.kind = "start", !.pc = "createSession",
                                         !.mic = ui.hasAudioDevices,
                                         !.cap = HasVideoCapability(ui),
                                         !.cams = ConfiguredCameras(ui),
                                         !.timer = header.monitoringTimer])
    /\ transcript' = resetTranscript
    /\ mindmap' = clearMindmap
    /\ header' = [header EXCEPT !.errorMsg = "none"]
    /\ budget' = [budget EXCEPT !.clicks = @ + 1]
    /\ UNCHANGED <<modal, backend, hist>>
    /\ SyncAndVlmUnchanged

\* createSession() answers the start path (466-468), or throws into 508-525.
CreateSessionDone(k, ok) ==
    /\ k \in TaskIds
    /\ tasks[k].kind = "start" /\ tasks[k].pc = "createSession"
    /\ IF ok
         THEN /\ backend' = [backend EXCEPT !.sessions = @ + 1]
              /\ ui' = Rendered(ui, setSessionId(ui, backend.sessions + 1))
              /\ tasks' = [tasks EXCEPT ![k].pc = "startMonitoring",
                                        ![k].session = backend.sessions + 1]
              /\ UNCHANGED header
         ELSE /\ ui' = Rendered(ui, setIsRecording(processingFailed(ui), FALSE))
              /\ IF tasks[k].timer # 0
                   THEN /\ header' = [errorMsg |-> "failedToStartRecording", monitoringTimer |-> 0]
                        /\ backend' = stopMonitoring(MonitoringCleanup(
                                          [backend EXCEPT !.timers = @ \ {tasks[k].timer}],
                                          header.monitoringTimer, 0))
                   ELSE /\ header' = [header EXCEPT !.errorMsg = "failedToStartRecording"]
                        /\ UNCHANGED backend
              /\ tasks' = Without(k)
    /\ UNCHANGED <<transcript, mindmap, modal, budget, hist>>
    /\ SyncAndVlmUnchanged

\* A start path whose monitoring failure ends in the outer catch.
StartMonitoringDoneCritical(k, ok) ==
    /\ k \in TaskIds
    /\ tasks[k].kind = "start" /\ tasks[k].pc = "startMonitoring"
    /\ IF ok
         THEN /\ backend' = MonitoringCleanup(MonitoringStarted(backend, tasks[k].session),
                                              header.monitoringTimer, tasks[k].session)
              /\ header' = [header EXCEPT !.monitoringTimer = tasks[k].session]
              /\ LET r == AfterMonitoring(ui, tasks[k])
                 IN  /\ ui' = Rendered(ui, r.ui)
                     /\ tasks' = IF r.await THEN [tasks EXCEPT ![k].pc = "startVideo"]
                                  ELSE Without(k)
         ELSE /\ ui' = Rendered(ui, setIsRecording(processingFailed(ui), FALSE))
              /\ header' = [header EXCEPT !.errorMsg = "failedToStartRecording"]
              /\ tasks' = Without(k)
              /\ UNCHANGED backend
    /\ UNCHANGED <<transcript, mindmap, modal, budget, hist>>
    /\ SyncAndVlmUnchanged

\* startMonitoring() answers the start path (469-506); a failure is logged only.
StartMonitoringDone(k, ok) ==
    /\ k \in TaskIds
    /\ tasks[k].kind = "start" /\ tasks[k].pc = "startMonitoring"
    /\ IF ok
         THEN /\ backend' = MonitoringCleanup(MonitoringStarted(backend, tasks[k].session),
                                              header.monitoringTimer, tasks[k].session)
              /\ header' = [header EXCEPT !.monitoringTimer = tasks[k].session]
         ELSE UNCHANGED <<backend, header>>
    /\ LET r == AfterMonitoring(ui, tasks[k])
       IN  /\ ui' = Rendered(ui, r.ui)
           /\ tasks' = IF r.await THEN [tasks EXCEPT ![k].pc = "startVideo"] ELSE Without(k)
    /\ UNCHANGED <<transcript, mindmap, modal, budget, hist>>
    /\ SyncAndVlmUnchanged

\* Outcomes of a start-video request for the pipelines in `requested`: a result
\* list in which the pipelines of a subset came up, a response without a
\* result list, or a thrown error.
VideoOutcomes(requested) ==
    {[kind |-> "results", up |-> S] : S \in SUBSET requested}
        \cup {[kind |-> "empty", up |-> {}], [kind |-> "throw", up |-> {}]}

\* startVideoAnalyticsInBackground after its await (Header.tsx 377-438).
StartVideoResponse(s, outcome) ==
    LET s1 == IF outcome.kind = "results"
                THEN IF outcome.up # {}
                       THEN SetField(SetField(setVideoAnalyticsActive(
                                SetStreams(s, outcome.up, "hls"), TRUE),
                                "activeStream", "all"), "videoStatus", "streaming")
                       ELSE SetField(setVideoAnalyticsActive(s, FALSE), "videoStatus", "failed")
              ELSE IF outcome.kind = "throw"
                THEN SetField(setVideoAnalyticsActive(s, FALSE), "videoStatus", "failed")
              ELSE s
    IN  setVideoAnalyticsLoading(s1, FALSE)

StartVideoDone(k, outcome) ==
    /\ k \in TaskIds
    /\ tasks[k].kind = "start" /\ tasks[k].pc = "startVideo"
    /\ outcome \in VideoOutcomes(tasks[k].cams)
    /\ ui' = Rendered(ui, StartVideoResponse(ui, outcome))
    /\ backend' = [backend EXCEPT !.video = @ \cup outcome.up]
    /\ tasks' = Without(k)
    /\ UNCHANGED <<transcript, mindmap, header, modal, budget, hist>>
    /\ SyncAndVlmUnchanged

\* The microphone was the audio source of the recording being stopped (542).
WasRecordingAudio(t) == t.mic /\ t.path = "MICROPHONE"

\* Stop path, audio branches that do not await (549-557).
StopAudio(s, t, audioStatus) ==
    IF ~t.mic THEN SetField(s, "audioStatus", "no-devices")
    ELSE IF audioStatus = "recording" THEN SetField(s, "audioStatus", "ready")
    ELSE s

ClearStreams(s) ==
    SetField(SetStreams(s, Pipelines, ""), "activeStream", "null")

\* Stop path, video branches that do not await (590-601).
StopVideoIdle(s, t) ==
    IF ~t.cap THEN SetField(s, "videoStatus", "no-config")
    ELSE setVideoAnalyticsActive(ClearStreams(SetField(s, "videoStatus", "ready")), FALSE)

\* Stop path, processing-mode and audio-path reset (602-614).
StopTail(s, t) ==
    LET s1 == IF ~WasRecordingAudio(t) \/ ~t.mic THEN SetField(s, "processingMode", "null") ELSE s
    IN  IF t.path = "MICROPHONE" /\ ~WasRecordingAudio(t)
          THEN setUploadedAudioPath(s1, "") ELSE s1

\* Stop path from the video decision on (559-614).
AfterAudio(s, t) ==
    IF t.active /\ t.cap /\ t.session # 0
      THEN [ui |-> setVideoAnalyticsStopping(s, TRUE), await |-> TRUE]
      ELSE [ui |-> StopTail(StopVideoIdle(s, t), t), await |-> FALSE]

\* handleRecordingToggle, stop path up to its first await (526-573).
ToggleOff ==
    /\ ~modal.open
    /\ ui.isRecording
    /\ ~IsRecordingDisabled(ui, transcript, mindmap)
    /\ budget.clicks < MaxClicks
    /\ LET t == [NoTask EXCEPT !.kind = "stop", !.session = ui.sessionId,
                               !.mic = ui.hasAudioDevices, !.cap = HasVideoCapability(ui),
                               !.path = ui.uploadedAudioPath,
                               !.active = ui.videoAnalyticsActive]
           s1 == SetField(setIsRecording(ui, FALSE), "justStoppedRecording", TRUE)
           mic == t.session # 0 /\ WasRecordingAudio(t)
           r == IF mic THEN [ui |-> s1, await |-> TRUE]
                ELSE AfterAudio(StopAudio(s1, t, ui.audioStatus), t)
           after == IF mic THEN s1 ELSE StopAudio(s1, t, ui.audioStatus)
       IN  /\ ui' = Rendered(ui, r.ui)
           /\ tasks' = IF r.await
                         THEN Append(tasks, [t EXCEPT !.pc = IF mic THEN "stopMicrophone"
                                                             ELSE "stopVideo"])
                         ELSE tasks
           /\ hist' = [stopPath |-> t.path, wasRecordingAudio |-> WasRecordingAudio(t),
                       audioBefore |-> ui.audioStatus,
                       audioAfterClick |-> after.audioStatus,
                       stopDone |-> ~r.await,
                       audioAtDone |-> IF r.await THEN "none" ELSE r.ui.audioStatus,
                       session |-> t.session,
                       videoStopSent |-> r.await /\ ~mic]
    /\ header' = [header EXCEPT !.errorMsg = "none"]
    /\ budget' = [budget EXCEPT !.clicks = @ + 1]
    /\ UNCHANGED <<transcript, mindmap, modal, backend>>
    /\ SyncAndVlmUnchanged

\* Stop path, the outer catch (618-626).
StopFailed(s, t) ==
    setUploadedAudioPath(
        SetField(SetField(SetField(setVideoAnalyticsStopping(s, FALSE),
            "audioStatus", IF t.mic THEN "ready" ELSE "no-devices"),
            "videoStatus", IF t.cap THEN "ready" ELSE "no-config"),
            "processingMode", "null"),
        "")

\* stopMicrophone() answers (546-548) or throws into the outer catch.
StopMicDone(k, ok) ==
    /\ k \in TaskIds
    /\ tasks[k].kind = "stop" /\ tasks[k].pc = "stopMicrophone"
    /\ LET r == IF ok THEN AfterAudio(ui, tasks[k])
                ELSE [ui |-> StopFailed(ui, tasks[k]), await |-> FALSE]
       IN  /\ ui' = Rendered(ui, r.ui)
           /\ tasks' = IF r.await THEN [tasks EXCEPT ![k].pc = "stopVideo"] ELSE Without(k)
           /\ hist' = IF r.await THEN [hist EXCEPT !.videoStopSent = TRUE]
                      ELSE [hist EXCEPT !.stopDone = TRUE, !.audioAtDone = r.ui.audioStatus]
    /\ header' = IF ok THEN header ELSE [header EXCEPT !.errorMsg = "failedToStopRecording"]
    /\ UNCHANGED <<transcript, mindmap, modal, backend, budget>>
    /\ SyncAndVlmUnchanged

\* stopVideoAnalytics() answers (573-589) and the stop path runs to its end.
StopVideoDone(k, ok) ==
    /\ k \in TaskIds
    /\ tasks[k].kind = "stop" /\ tasks[k].pc = "stopVideo"
    /\ LET t == tasks[k]
           s1 == IF ok
                   THEN SetField(setVideoAnalyticsActive(ClearStreams(ui), FALSE),
                                 "videoStatus", IF t.cap THEN "ready" ELSE "no-config")
                   ELSE SetField(ui, "videoStatus", "failed")
           s2 == StopTail(setVideoAnalyticsStopping(s1, FALSE), t)
       IN  /\ ui' = Rendered(ui, s2)
           /\ hist' = [hist EXCEPT !.stopDone = TRUE, !.audioAtDone = s2.audioStatus]
    /\ backend' = IF ok THEN [backend EXCEPT !.video = {}] ELSE backend
    /\ tasks' = Without(k)
    /\ UNCHANGED <<transcript, mindmap, header, modal, budget>>
    /\ SyncAndVlmUnchanged

\* The 45-minute timeout armed at 473-481 (and UploadFilesModal.tsx 301-309) fires.
TimerFires(id) ==
    /\ id \in backend.timers
    /\ backend' = stopMonitoring([backend EXCEPT !.timers = @ \ {id}])
    /\ UNCHANGED <<ui, transcript, mindmap, header, modal, tasks, budget, hist>>
    /\ SyncAndVlmUnchanged

\* ---- UploadFilesModal -------------------------------------------------------------
\* Header.tsx 667-677: the header's upload button.
OpenUploadModal ==
    /\ ~modal.open
    /\ ~IsUploadDisabled(ui, transcript, mindmap)
    /\ budget.uploads < MaxUploads
    /\ modal' = [ClosedModal EXCEPT !.open = TRUE, !.owner = "header",
                                    !.inst = budget.uploads + 1]
    /\ budget' = [budget EXCEPT !.uploads = @ + 1]
    /\ UNCHANGED <<ui, transcript, mindmap, header, tasks, backend, hist>>
    /\ SyncAndVlmUnchanged

\* VideoStream: the upload button of the idle video panel.
OpenUploadModalFromVideo ==
    /\ ~modal.open
    /\ StreamStatus(ui, transcript) = "inactive"
    /\ budget.uploads < MaxUploads
    /\ modal' = [ClosedModal EXCEPT !.open = TRUE, !.owner = "video",
                                    !.inst = budget.uploads + 1]
    /\ budget' = [budget EXCEPT !.uploads = @ + 1]
    /\ UNCHANGED <<ui, transcript, mindmap, header, tasks, backend, hist>>
    /\ SyncAndVlmUnchanged

\* The operator dismisses the modal (handleCloseUploadModal); its cleanup runs.
CloseUploadModal ==
    /\ modal.open
    /\ backend' = ModalCleanup(backend, modal)
    /\ modal' = ClosedModal
    /\ UNCHANGED <<ui, transcript, mindmap, header, tasks, budget, hist>>
    /\ SyncAndVlmUnchanged

\* Mutant: the empty selection is let through.
NothingSelectedNever(hasAudioFile, hasVideoFiles) == FALSE

\* handleApply's own check (UploadFilesModal.tsx 268).
NothingSelected(hasAudioFile, hasVideoFiles) == ~hasAudioFile /\ ~hasVideoFiles

\* handleApply up to `await createSession()` (264-293).
handleApply(audioFile, videoFiles) ==
    /\ modal.open
    /\ ~modal.loading
    /\ IF NothingSelected(audioFile, videoFiles # {})
         THEN /\ modal' = [modal EXCEPT !.error = "required"]
              /\ UNCHANGED <<ui, transcript, mindmap, tasks, budget>>
         ELSE /\ budget.applies < MaxUploads
              /\ ui' = Rendered(ui, SetField(startProcessing(resetFlow(ui)), "audioStatus",
                                             IF audioFile THEN "processing" ELSE "no-devices"))
              /\ transcript' = resetTranscript
              /\ mindmap' = clearMindmap
              /\ modal' = [modal EXCEPT !.loading = TRUE, !.error = "none"]
              /\ tasks' = Append(tasks, [NoTask EXCEPT !.kind = "upload",
                                            !.pc = "createSession", !.audio = audioFile,
                                            !.cams = videoFiles, !.inst = modal.inst])
              /\ budget' = [budget EXCEPT !.applies = @ + 1]
    /\ UNCHANGED <<header, backend, hist>>
    /\ SyncAndVlmUnchanged

\* handleApply's catch (419-425).
ApplyFailed(k) ==
    /\ ui' = Rendered(ui, processingFailed(ui))
    /\ modal' = ModalSet(ModalSet(modal, tasks[k].inst, "error", "failed"),
                         tasks[k].inst, "loading", FALSE)
    /\ tasks' = Without(k)
    /\ UNCHANGED <<transcript, backend>>

\* startVideoAnalyticsWithSession after its await (177-230) and the caller's
\* check of its result (383-389).
UploadVideoResponse(s, outcome) ==
    IF outcome.kind = "results"
      THEN IF outcome.up # {}
             THEN setVideoAnalyticsLoading(
                      SetField(setVideoAnalyticsActive(
                          SetField(SetStreams(s, outcome.up, "hls"), "activeStream", "all"),
                          TRUE), "videoStatus", "streaming"), FALSE)
             ELSE SetField(setVideoAnalyticsLoading(SetField(s, "videoStatus", "failed"), FALSE),
                           "videoStatus", "failed")
      ELSE SetField(setVideoAnalyticsActive(setVideoAnalyticsLoading(s, FALSE), FALSE),
                    "videoStatus", "failed")

\* handleApply from the pipeline list to the video request (332-382).
UploadVideoRequest(s, t) ==
    LET s1 == setHasUploadedVideoFiles(s, t.cams # {})
    IN  IF t.cams # {}
          THEN [ui |-> SetField(setVideoAnalyticsLoading(
                           startStream(SetField(s1, "videoStatus", "starting")), TRUE),
                           "videoStatus", "starting"),
                await |-> TRUE]
          ELSE [ui |-> SetField(s1, "videoStatus", "no-config"), await |-> FALSE]

\* A handleApply that starts the transcript stream only when video analytics
\* came up or no video was selected.
ApplyFinishedVideoFirst(k, s) ==
    /\ ui' = Rendered(ui, s)
    /\ tasks' = IF tasks[k].audio /\ (s.videoAnalyticsActive \/ tasks[k].cams = {})
                  THEN [tasks EXCEPT ![k].kind = "stream", ![k].pc = "streaming"]
                  ELSE Without(k)
    /\ IF modal.open /\ modal.inst = tasks[k].inst
         THEN /\ modal' = ClosedModal
              /\ backend' = ModalCleanup(backend, modal)
         ELSE UNCHANGED <<modal, backend>>
    /\ UNCHANGED transcript

\* handleApply's last block (395-417): start the transcript stream, close the modal.
ApplyFinished(k, s) ==
    /\ ui' = Rendered(ui, s)
    /\ tasks' = IF tasks[k].audio
                  THEN [tasks EXCEPT ![k].kind = "stream", ![k].pc = "streaming"]
                  ELSE Without(k)
    /\ IF modal.open /\ modal.inst = tasks[k].inst
         THEN /\ modal' = ClosedModal
              /\ backend' = ModalCleanup(backend, modal)
         ELSE UNCHANGED <<modal, backend>>
    /\ UNCHANGED transcript

\* createSession() answers handleApply (293-296).
UploadCreateSessionDone(k, ok) ==
    /\ k \in TaskIds
    /\ tasks[k].kind = "upload" /\ tasks[k].pc = "createSession"
    /\ IF ok
         THEN /\ backend' = [backend EXCEPT !.sessions = @ + 1]
              /\ ui' = Rendered(ui, setSessionId(ui, backend.sessions + 1))
              /\ tasks' = [tasks EXCEPT ![k].pc = "startMonitoring",
                                        ![k].session = backend.sessions + 1]
              /\ UNCHANGED <<modal, transcript>>
         ELSE ApplyFailed(k)
    /\ UNCHANGED <<mindmap, header, budget, hist>>
    /\ SyncAndVlmUnchanged

\* startMonitoring() answers handleApply (298-330); a failure is logged only.
UploadStartMonitoringDone(k, ok) ==
    /\ k \in TaskIds
    /\ tasks[k].kind = "upload" /\ tasks[k].pc = "startMonitoring"
    /\ LET t == tasks[k]
           b == IF ok THEN MonitoringStarted(backend, t.session) ELSE backend
           m == IF ok THEN ModalSet(modal, t.inst, "monitoringTimer", t.session) ELSE modal
           r == UploadVideoRequest(SetField(ui, "processingMode", "video-only"), t)
       IN  IF t.audio
             THEN /\ tasks' = [tasks EXCEPT ![k].pc = "uploadAudio"]
                  /\ backend' = b
                  /\ modal' = m
                  /\ UNCHANGED <<ui, transcript>>
           ELSE IF r.await
             THEN /\ tasks' = [tasks EXCEPT ![k].pc = "startVideo"]
                  /\ ui' = Rendered(ui, r.ui)
                  /\ backend' = b
                  /\ modal' = m
                  /\ UNCHANGED transcript
           ELSE /\ ui' = Rendered(ui, r.ui)
                /\ tasks' = Without(k)
                /\ backend' = ModalCleanup(b, m)
                /\ modal' = IF m.open /\ m.inst = t.inst THEN ClosedModal ELSE m
                /\ UNCHANGED transcript
    /\ UNCHANGED <<mindmap, header, budget, hist>>
    /\ SyncAndVlmUnchanged

\* uploadAudio() answers handleApply (320-325) or throws into the catch.
UploadAudioDone(k, ok) ==
    /\ k \in TaskIds
    /\ tasks[k].kind = "upload" /\ tasks[k].pc = "uploadAudio"
    /\ IF ok
         THEN LET r == UploadVideoRequest(
                           SetField(setUploadedAudioPath(ui, "audio.wav"),
                                    "processingMode", "audio"), tasks[k])
              IN  IF r.await
                    THEN /\ ui' = Rendered(ui, r.ui)
                         /\ tasks' = [tasks EXCEPT ![k].pc = "startVideo"]
                         /\ UNCHANGED <<modal, backend, transcript>>
                    ELSE ApplyFinished(k, r.ui)
         ELSE ApplyFailed(k)
    /\ UNCHANGED <<mindmap, header, budget, hist>>
    /\ SyncAndVlmUnchanged

\* startVideoAnalyticsPipeline() answers (175) and handleApply runs to its end.
UploadVideoDone(k, outcome) ==
    /\ k \in TaskIds
    /\ tasks[k].kind = "upload" /\ tasks[k].pc = "startVideo"
    /\ outcome \in VideoOutcomes(tasks[k].cams)
    /\ outcome.kind # "empty"
    /\ ApplyFinished(k, UploadVideoResponse(ui, outcome))
    /\ UNCHANGED <<mindmap, header, budget, hist>>
    /\ SyncAndVlmUnchanged

\* One event of the transcript stream is consumed (104-157).
StreamEvent(k, ev) ==
    /\ k \in TaskIds
    /\ tasks[k].kind = "stream"
    /\ CASE ev = "transcript" ->
              /\ transcript.tokens < MaxTokens
              /\ transcript' = [status |-> IF tasks[k].sentFirst THEN transcript.status
                                           ELSE "streaming",
                                tokens |-> transcript.tokens + 1]
              /\ ui' = Rendered(ui, IF tasks[k].sentFirst THEN ui ELSE startTranscription(ui))
              /\ tasks' = [tasks EXCEPT ![k].sentFirst = TRUE]
         [] ev = "error" ->
              /\ transcript' = [transcript EXCEPT !.status = "done"]
              /\ ui' = Rendered(ui, SetField(ui, "audioStatus", "error"))
              /\ tasks' = Without(k)
         [] ev = "done" ->
              /\ transcript' = [transcript EXCEPT !.status = "done"]
              /\ ui' = Rendered(ui, transcriptionComplete(ui))
              /\ tasks' = Without(k)
         [] ev = "throw" ->
              /\ ui' = Rendered(ui, SetField(ui, "audioStatus", "error"))
              /\ tasks' = Without(k)
              /\ UNCHANGED transcript
    /\ UNCHANGED <<mindmap, header, modal, backend, budget, hist>>
    /\ SyncAndVlmUnchanged

\* ---- downstream stages whose components are not in the tree -------------------
\* The microphone transcript of a stopped recording completes.
MicTranscriptDone ==
    /\ ui.uploadedAudioPath = "MICROPHONE"
    /\ ~ui.isRecording
    /\ ui.aiProcessing
    /\ ~ui.summaryEnabled
    /\ \A k \in TaskIds : tasks[k].kind # "stop"
    /\ transcript' = [transcript EXCEPT !.status = "done"]
    /\ ui' = Rendered(ui, transcriptionComplete(ui))
    /\ UNCHANGED <<mindmap, header, modal, tasks, backend, budget, hist>>
    /\ SyncAndVlmUnchanged

\* The summary stream delivers its first token.
SummaryFirstToken ==
    /\ ui.summaryEnabled /\ ui.summaryLoading
    /\ ui' = Rendered(ui, firstSummaryToken(ui))
    /\ UNCHANGED <<transcript, mindmap, header, modal, tasks, backend, budget, hist>>
    /\ SyncAndVlmUnchanged

\* The summary stream ends.
SummaryDone ==
    /\ ui.summaryEnabled /\ ~ui.summaryLoading /\ ~ui.mindmapEnabled
    /\ ui' = Rendered(ui, summaryDone(ui))
    /\ mindmap' = [mindmap EXCEPT !.isLoading = TRUE]
    /\ UNCHANGED <<transcript, header, modal, tasks, backend, budget, hist>>
    /\ SyncAndVlmUnchanged

\* The mind-map request ends, with a mind map or with an error.
MindmapDone(ok) ==
    /\ ui.mindmapEnabled /\ ui.mindmapLoading
    /\ ui' = Rendered(ui, IF ok THEN mindmapSuccess(ui) ELSE mindmapFailed(ui))
    /\ mindmap' = [isLoading |-> FALSE, finalText |-> ok, error |-> ~ok]
    /\ UNCHANGED <<transcript, header, modal, tasks, backend, budget, hist>>
    /\ SyncAndVlmUnchanged

\* ---- the session UI as a state machine ----------------------------------------
InitUI ==
    /\ \E stored \in CameraConfigs :
           ui = setAudioDevicesLoading(loadCameraSettingsFromStorage(initialState, stored), TRUE)
    /\ transcript = resetTranscript
    /\ mindmap = clearMindmap
    /\ header = [errorMsg |-> "none", monitoringTimer |-> 0]
    /\ modal = ClosedModal
    /\ tasks = <<>>
    /\ backend = [sessions |-> 0, timers |-> {}, monitoring |-> 0, video |-> {}]
    /\ budget = [clicks |-> 0, uploads |-> 0, applies |-> 0]
    /\ hist = NoStop
    /\ SyncIdle
    /\ VlmIdle
    /\ StoreIdle
    /\ SetupIdle
    /\ SliceIdle

NextUI ==
    \/ \E hasDevices \in BOOLEAN : DevicesChecked(hasDevices)
    \/ JustStoppedExpires
    \/ ToggleOn
    \/ \E k \in TaskIds, ok \in BOOLEAN : CreateSessionDone(k, ok)
    \/ \E k \in TaskIds, ok \in BOOLEAN : StartMonitoringDone(k, ok)
    \/ \E k \in TaskIds : \E outcome \in VideoOutcomes(Pipelines) : StartVideoDone(k, outcome)
    \/ ToggleOff
    \/ \E k \in TaskIds, ok \in BOOLEAN : StopMicDone(k, ok)
    \/ \E k \in TaskIds, ok \in BOOLEAN : StopVideoDone(k, ok)
    \/ \E id \in backend.timers : TimerFires(id)
    \/ OpenUploadModal
    \/ OpenUploadModalFromVideo
    \/ CloseUploadModal
    \/ \E audioFile \in BOOLEAN, videoFiles \in VideoSelections : handleApply(audioFile, videoFiles)
    \/ \E k \in TaskIds, ok \in BOOLEAN : UploadCreateSessionDone(k, ok)
    \/ \E k \in TaskIds, ok \in BOOLEAN : UploadStartMonitoringDone(k, ok)
    \/ \E k \in TaskIds, ok \in BOOLEAN : UploadAudioDone(k, ok)
    \/ \E k \in TaskIds : \E outcome \in VideoOutcomes(Pipelines) : UploadVideoDone(k, outcome)
    \/ \E k \in TaskIds, ev \in {"transcript", "error", "done", "throw"} : StreamEvent(k, ev)
    \/ MicTranscriptDone
    \/ SummaryFirstToken
    \/ SummaryDone
    \/ MindmapDone(TRUE)
    \/ MindmapDone(FALSE)

SpecUI == InitUI /\ [][NextUI]_vars


(***************************************************************************)
(* Claims about the session UI, checked under SpecUI.                      *)
(***************************************************************************)

\* No request is awaited and no stage of the pipeline is running.
NoOperationInFlight ==
    /\ tasks = <<>>
    /\ ~ui.audioDevicesLoading /\ ~ui.aiProcessing /\ transcript.status # "streaming"
    /\ ~ui.summaryLoading /\ ~ui.mindmapLoading /\ ~mindmap.isLoading
    /\ ~ui.videoAnalyticsStopping /\ ~ui.videoAnalyticsLoading

NothingConfigured == ~ui.isRecording /\ ~ui.hasAudioDevices /\ ~HasCameraSettings(ui)

\* C7: whenever no recording is in progress, no microphone is available and no
\* camera source is configured, the record control is disabled; and when
\* nothing else is in flight, a microphone becoming available, or one camera
\* being configured, enables it.
C7_RecordDisabledWithNothingToRecord ==
    /\ NothingConfigured => IsRecordingDisabled(ui, transcript, mindmap)
    /\ (NothingConfigured /\ NoOperationInFlight) =>
           /\ ~IsRecordingDisabled(setHasAudioDevices(ui, TRUE), transcript, mindmap)
           /\ ~IsRecordingDisabled(SetField(ui, "frontCamera", "rtsp://front"),
                                   transcript, mindmap)

\* C8: handleApply called with no audio file and no camera file sets the inline
\* error and nothing else: no session is created, no request is started, and
\* the store (ui, transcript, mind map) is what it was before the call.
C8_EmptyApplyChangesNothing ==
    [][handleApply(FALSE, {}) =>
          /\ modal'.error = "required"
          /\ ui' = ui /\ transcript' = transcript /\ mindmap' = mindmap
          /\ tasks' = tasks /\ backend' = backend]_vars

\* An empty selection has been applied and rejected.
C8_Witness == modal.open /\ modal.error = "required" /\ tasks = <<>> /\ backend.sessions = 0

\* C9: a stop click made while uploadedAudioPath is not 'MICROPHONE' leaves
\* audioStatus at the value it had immediately before the click.
C9_NonMicrophoneStopKeepsAudioStatus ==
    hist.stopPath \notin {"none", "MICROPHONE"} =>
        hist.audioAfterClick = hist.audioBefore

\* C10: when the stop sequence of a microphone recording (hasAudioDevices and
\* uploadedAudioPath 'MICROPHONE') has completed, audioStatus is 'ready', or
\* 'no-devices' when no device exists.
C10_MicrophoneStopReachesReady ==
    (hist.wasRecordingAudio /\ hist.stopDone) =>
        hist.audioAtDone = (IF ui.hasAudioDevices THEN "ready" ELSE "no-devices")


\* The in-flight conditions that disable the record control (Header.tsx 310-319).
InFlightCondition ==
    \/ ui.aiProcessing \/ transcript.status = "streaming" \/ ui.summaryLoading
    \/ MindmapNotReady(ui, mindmap)
    \/ ui.videoAnalyticsStopping \/ ui.videoAnalyticsLoading

\* C11: while a recording is in progress, or an in-flight condition that
\* disables recording holds, no control opens the upload modal: the header's
\* upload button is disabled and the video panel's upload button is not shown.
C11_NoUploadWhileBusy ==
    (ui.isRecording \/ InFlightCondition) =>
        /\ IsUploadDisabled(ui, transcript, mindmap)
        /\ StreamStatus(ui, transcript) # "inactive"


(***************************************************************************)
(* Further claims on ImageSync                                             *)
(***************************************************************************)

\* Pair p carries later timestamps than pair q.
LaterPair(p, q) == p[1].nanosec > q[1].nanosec /\ p[2].nanosec > q[2].nanosec

\* C12: the pairs handed to the callback are delivered in non-decreasing
\* timestamp order, whatever the arrival order of the frames: no pair is
\* delivered after a pair whose timestamps are later.
C12_FiredInTimestampOrder ==
    \A i, j \in 1..Len(fired) : i < j => ~LaterPair(fired[i], fired[j])


\* The callback is running, or has just returned, on thread t.
InCallback(t) == pc[t] \in {"r_cb", "r_erase_rgb"}

\* The callback invocation that called back into ImageSync has returned and
\* its thread is about to run the erases and pops of lines 54-57.
BackFromReentry ==
    /\ reentry.outer # NoThread
    /\ ~reentry.running
    /\ pc[reentry.outer] = "r_erase_rgb"
    /\ Len(fired) = reentry.returned_at

\* C13: the callback runs with queue_mutex not held, and a callback that calls
\* callback_rgb or callback_depth is safe: the call finds the mutex free (no
\* deadlock), no pair is delivered twice, and the entries erased and popped
\* once the callback has returned are those of the pair it was handed.
C13_ReentrantCallbackSafe ==
    /\ \A t \in Threads : InCallback(t) => queue_mutex # t
    /\ \A u \in Threads : (reentry.running /\ pc[u] = "lock") => queue_mutex = NoThread
    /\ \A i, j \in 1..Len(fired) : i < j => fired[i] # fired[j]
    /\ BackFromReentry =>
          /\ BothNonEmpty
          /\ MapIndex(rgb_map, Head(queue_rgb)[2]) = reentry.pair[1]
          /\ MapIndex(depth_map, Head(queue_depth)[2]) = reentry.pair[2]


(***************************************************************************)
(* Further claims on the session UI                                        *)
(***************************************************************************)

\* C14: a normal stop of the recording cancels the session's 45-minute
\* monitoring timer: once the stop sequence has completed, no monitoring
\* timer of the stopped session remains armed.
C14_StopCancelsMonitoringTimer ==
    hist.stopDone => hist.session \notin backend.timers


\* C15: the monitoring of every session whose startMonitoring call succeeded
\* is stopped: the armed 45-minute timer calls stopMonitoring when it fires,
\* and whenever an armed timer is cancelled instead (component teardown), the
\* step that cancels it calls stopMonitoring.
C15_MonitoringAlwaysStopped ==
    [][\A id \in backend.timers :
          id \notin backend'.timers => backend'.monitoring = 0]_vars


\* The stop sequence of task t had video analytics to stop (wasVideoActive, 559).
WasVideoActive(t) == t.active /\ t.cap /\ t.session # 0

\* C16: in the toggle-off sequence a failing step does not keep the remaining
\* steps from running: when stopVideoAnalytics rejects, videoStatus becomes
\* 'failed', the stopping flag is cleared and the processing-mode and
\* audio-path handling still runs; when stopMicrophone rejects, the started
\* camera pipelines are still sent their stop request.
C16_StopStepsIndependent ==
    [][\A k \in TaskIds :
          /\ StopVideoDone(k, FALSE) =>
                /\ ui'.videoStatus = "failed"
                /\ ~ui'.videoAnalyticsStopping
                /\ ui'.processingMode = StopTail(ui, tasks[k]).processingMode
                /\ ui'.uploadedAudioPath = StopTail(ui, tasks[k]).uploadedAudioPath
          /\ (StopMicDone(k, FALSE) /\ WasVideoActive(tasks[k])) =>
                \E j \in 1..Len(tasks') :
                    tasks'[j].kind = "stop" /\ tasks'[j].pc = "stopVideo"]_vars


\* The step ends a toggle-off sequence.
StopCompletes == hist' # hist /\ hist'.stopDone

StreamsCleared(s) ==
    /\ s.frontCameraStream = ""
    /\ s.backCameraStream = ""
    /\ s.boardCameraStream = ""
    /\ s.activeStream = "null"

\* C17: when the toggle-off sequence completes, on every path through it,
\* frontCameraStream, backCameraStream and boardCameraStream are empty and
\* activeStream is null.
C17_StopClearsStreams == [][StopCompletes => StreamsCleared(ui')]_vars


\* The fields resetFlow preserves, and those it sets from them.
PreservedFields == {"hasAudioDevices", "audioDevicesLoading",
                    "frontCamera", "backCamera", "boardCamera"}
DerivedFields == {"audioStatus", "videoStatus"}

\* C18: resetFlow leaves hasAudioDevices, audioDevicesLoading, frontCamera,
\* backCamera and boardCamera unchanged, sets every other field to its initial
\* value, and sets audioStatus to checking, ready or no-devices and videoStatus
\* to ready or no-config according to the preserved devices and cameras.
C18_ResetFlowFrame ==
    LET r == resetFlow(ui)
    IN  /\ \A f \in PreservedFields : r[f] = ui[f]
        /\ \A f \in (DOMAIN initialState) \ (PreservedFields \cup DerivedFields) :
              r[f] = initialState[f]
        /\ r.audioStatus = IF ui.audioDevicesLoading THEN "checking"
                           ELSE IF ui.hasAudioDevices THEN "ready" ELSE "no-devices"
        /\ r.videoStatus = IF ui.frontCamera # "" \/ ui.backCamera # "" \/ ui.boardCamera # ""
                             THEN "ready" ELSE "no-config"

\* handleApply has just reset the state of an earlier session: the session id
\* is null again while the cameras and the device flag are as they were.
C18_Witness ==
    /\ \E k \in TaskIds : tasks[k].kind = "upload" /\ tasks[k].pc = "createSession"
    /\ backend.sessions >= 1
    /\ ui.sessionId = 0
    /\ ui.frontCamera # ""
    /\ ~ui.hasAudioDevices


\* C19: every change of videoStatus follows the documented sequence:
\* 'starting' is entered only from 'ready' or 'no-config', 'streaming' only
\* from 'starting', 'stopping' only from 'streaming', and 'stopping' is left
\* only to 'complete' or 'failed'.
C19_VideoStatusSequence ==
    [][ui'.videoStatus # ui.videoStatus =>
          /\ ui'.videoStatus = "starting" => ui.videoStatus \in {"ready", "no-config"}
          /\ ui'.videoStatus = "streaming" => ui.videoStatus = "starting"
          /\ ui'.videoStatus = "stopping" => ui.videoStatus = "streaming"
          /\ ui.videoStatus = "stopping" => ui'.videoStatus \in {"complete", "failed"}]_vars


(***************************************************************************)
(* Further claims on the VLM trigger engine                                *)
(***************************************************************************)

\* An update of intersection i with this density passes every gate but the
\* cooldown gate, and the intersection has had a VLM call before.
QualifyingTransition(i, density) ==
    /\ ThresholdGate(density)
    /\ StateChangeGate(traffic_state[i], CoarseState(density))
    /\ PersistenceGate(now, now, minimum_duration)
    /\ ConcurrencyGate(pending_analysis[i])
    /\ last_vlm_analysis_time[i] # Never

\* C20: with a cooldown of one minute, a qualifying transition of an
\* intersection 59 s after that intersection's last VLM invocation issues no
\* VLM call, and one 60 s after it issues one.
C20_CooldownBoundary ==
    [][\A i \in Intersections, density \in Densities :
          (QualifyingTransition(i, density) /\ TrafficUpdate(i, density)) =>
              /\ (now - last_vlm_analysis_time[i] = cooldown_minutes * 60 - 1)
                    => vlm_calls'[i] = vlm_calls[i]
              /\ (now - last_vlm_analysis_time[i] = cooldown_minutes * 60)
                    => vlm_calls'[i] = vlm_calls[i] + 1]_vars

\* An intersection whose first call was issued at 0 s has just been issued its
\* second call at 60 s.
C20_Witness ==
    \E i \in Intersections :
        /\ Evaluated(i)
        /\ evaluation.triggered
        /\ vlm_calls[i] = 2
        /\ now = cooldown_minutes * 60


(***************************************************************************)
(* Part D.  Retention of VLM analysis results                              *)
(* (traffic-data-analysis-workflow.md 355-387).  The service code is not   *)
(* part of the tree; the store is modelled from the documented retention.  *)
(***************************************************************************)

analysis_display_duration_minutes == 20
max_age_hours == 2

\* Minutes between two events: results aged 19, 20 and 21 minutes, and two
\* hours and more, all occur.
StoreClockSteps == {1, 19, 101}
\* max_age_hours a cleanup is called with: an hour, or the default.
CleanupAges == {1, max_age_hours}

NoAnalysis == [number |-> 0, timestamp |-> 0]
NoResponse == [intersection |-> 0, number |-> 0, age |-> 0, included |-> FALSE]

AgeOf(result) == store_minutes - result.timestamp

\* Mutant: a stored result is always shown.
AlwaysVisible(age) == {TRUE}

\* API visibility: 20 minutes after analysis completion.  The document does
\* not say which way a result of exactly 20 minutes goes.
Visible(age) ==
    IF age < analysis_display_duration_minutes THEN {TRUE}
    ELSE IF age > analysis_display_duration_minutes THEN {FALSE}
    ELSE {TRUE, FALSE}

\* clear_old_analyses(max_age_hours): a result older than the threshold goes;
\* one of exactly that age may go or stay.
Cleared(age, hours) ==
    IF age > hours * 60 THEN {TRUE}
    ELSE IF age < hours * 60 THEN {FALSE}
    ELSE {TRUE, FALSE}

OthersUnchangedByStore == UNCHANGED <<syncVars, vlmVars, uiVars, setupVars, sliceVars>>

\* self.vlm_results[intersection_id] = new_analysis_result (line 386).
StoreAnalysis(i) ==
    /\ analyses_stored < MaxAnalyses
    /\ analyses_stored' = analyses_stored + 1
    /\ analysis_results' = [analysis_results EXCEPT ![i] =
                               [number |-> analyses_stored + 1, timestamp |-> store_minutes]]
    /\ api_response' = NoResponse
    /\ UNCHANGED <<store_minutes, store_advances>>
    /\ OthersUnchangedByStore

\* An API response for intersection i: the stored result is included while
\* it is visible.
ApiRequest(i) ==
    /\ LET result == analysis_results[i]
       IN  \E shown \in (IF result = NoAnalysis THEN {FALSE} ELSE Visible(AgeOf(result))) :
               api_response' = [intersection |-> i, number |-> result.number,
                                age |-> AgeOf(result), included |-> shown]
    /\ UNCHANGED <<store_minutes, store_advances, analysis_results, analyses_stored>>
    /\ OthersUnchangedByStore

\* clear_old_analyses() called by hand (lines 368-369, 380).
clear_old_analyses(hours) ==
    /\ \E gone \in SUBSET Intersections :
          /\ \A i \in Intersections :
                (i \in gone) \in (IF analysis_results[i] = NoAnalysis THEN {FALSE}
                                  ELSE Cleared(AgeOf(analysis_results[i]), hours))
          /\ analysis_results' = [i \in Intersections |->
                                     IF i \in gone THEN NoAnalysis ELSE analysis_results[i]]
    /\ api_response' = NoResponse
    /\ UNCHANGED <<store_minutes, store_advances, analyses_stored>>
    /\ OthersUnchangedByStore

\* The wall clock moves on.
StoreClockAdvance(d) ==
    /\ store_advances < MaxStoreAdvances
    /\ store_minutes' = store_minutes + d
    /\ store_advances' = store_advances + 1
    /\ api_response' = NoResponse
    /\ UNCHANGED <<analysis_results, analyses_stored>>
    /\ OthersUnchangedByStore

NextStore ==
    \/ \E i \in Intersections : StoreAnalysis(i)
    \/ \E i \in Intersections : ApiRequest(i)
    \/ \E hours \in CleanupAges : clear_old_analyses(hours)
    \/ \E d \in StoreClockSteps : StoreClockAdvance(d)

InitStore ==
    /\ store_minutes = 0
    /\ store_advances = 0
    /\ analysis_results = [i \in Intersections |-> NoAnalysis]
    /\ analyses_stored = 0
    /\ api_response = NoResponse
    /\ SyncIdle
    /\ VlmIdle
    /\ UiIdle
    /\ SetupIdle
    /\ SliceIdle

SpecStore == InitStore /\ [][NextStore]_vars

\* C21: a stored result is included in API responses while it is younger than
\* 20 minutes and omitted once it is older; the store holds one result per
\* intersection, a new one overwriting the old; and a stored result leaves the
\* store only by a call of clear_old_analyses, never by the passing of time or
\* by a response that omits it.
C21_VisibleTwentyMinutes ==
    [][\A i \in Intersections :
          /\ (ApiRequest(i) /\ analysis_results[i] # NoAnalysis) =>
                /\ AgeOf(analysis_results[i]) < analysis_display_duration_minutes
                      => api_response'.included
                /\ AgeOf(analysis_results[i]) > analysis_display_duration_minutes
                      => ~api_response'.included
          /\ StoreAnalysis(i) => analysis_results'[i].number = analyses_stored + 1
          /\ (analysis_results[i] # NoAnalysis /\ analysis_results'[i] = NoAnalysis)
                => \E hours \in CleanupAges : clear_old_analyses(hours)]_vars

\* A response has just omitted a result that is more than two hours old and
\* is still in the store.
C21_Witness ==
    \E i \in Intersections :
        /\ api_response.intersection = i
        /\ ~api_response.included
        /\ analysis_results[i] # NoAnalysis
        /\ analysis_results[i].number = api_response.number
        /\ api_response.age > max_age_hours * 60


(***************************************************************************)
(* Part E.  The setup scripts                                              *)
(*   smart-traffic-intersection-agent/setup.sh ("intersection")            *)
(*   smart-route-planning-agent/setup.sh       ("route")                   *)
(* A run sources one script with some arguments, environment and working   *)
(* tree; every external command may succeed or fail.                       *)
(***************************************************************************)

Unset == "<unset>"

\* Variables the scripts export with ${VAR:-default}, and their defaults
\* (intersection 253-285, route 78-101).
Defaults ==
    [TAG |-> "latest", LOG_LEVEL |-> "INFO", VLM_DEVICE |-> "CPU",
     VLM_WORKERS |-> "1", VLM_COMPRESSION_WEIGHT_FORMAT |-> "int8"]
EnvVars == DOMAIN Defaults
\* The variables each script gives a default.
DefaultedBy(which) ==
    IF which = "intersection" THEN EnvVars ELSE {"TAG", "LOG_LEVEL"}

NothingSet == [x \in EnvVars |-> Unset]
\* Environments a run starts with: nothing set; LOG_LEVEL and TAG chosen by
\* the operator; a GPU deployment with its own worker count and weight
\* format; a CPU deployment with its own; LOG_LEVEL set to the empty string.
EnvInputs ==
    { NothingSet,
      [NothingSet EXCEPT !.LOG_LEVEL = "DEBUG", !.TAG = "1.2.0"],
      [NothingSet EXCEPT !.VLM_DEVICE = "GPU", !.VLM_WORKERS = "4",
                         !.VLM_COMPRESSION_WEIGHT_FORMAT = "int8"],
      [NothingSet EXCEPT !.VLM_DEVICE = "CPU", !.VLM_WORKERS = "4",
                         !.VLM_COMPRESSION_WEIGHT_FORMAT = "fp16"],
      [NothingSet EXCEPT !.LOG_LEVEL = ""] }

\* What a clone of edge-ai-suites brings: the repository, the recipe
\* directory, its install.sh and its compose file.
ClonedTree == {"edge-ai-suites", "metro-vision-ai-app-recipe", "install.sh", "compose.yaml"}
TreeInputs == { {}, {"edge-ai-suites"}, {"edge-ai-suites", "metro-vision-ai-app-recipe"},
                ClonedTree }

IntersectionVerbs == {"--help", "--setenv", "--run", "--setup", "--restart", "--stop", "--clean"}
RouteCases == {"setup", "build", "up", "down", "restart"}
\* Verbs of the route-planning user guide (part_002 lines 40-60).
RouteDocumentedVerbs == {"setup", "setenv", "up", "down", "restart", "status"}

\* Argument lists a run is started with.
ArgvInputs(which) ==
    LET verbs == IF which = "intersection"
                   THEN IntersectionVerbs \cup {"--status"}
                   ELSE RouteCases \cup RouteDocumentedVerbs \cup {"help", "clean"}
        seconds == IF which = "intersection" THEN {"agent", "prerequisite", "all"}
                   ELSE {"agent"}
    IN  {<<>>} \cup {<<v>> : v \in verbs}
               \cup {<<v, a>> : v \in verbs, a \in seconds}
               \cup {<<v, a, "agent">> : v \in {"--restart", "restart"}, a \in seconds}

\* ${VAR:-default}: the default replaces an unset or empty value.
WithDefault(value, default) == IF value = Unset \/ value = "" THEN default ELSE value

\* ---- running a list of commands ------------------------------------------------
\* A planned command: its name and whether the script tests its exit status
\* and stops on failure.
Step(cmd, checked) == [cmd |-> cmd, checked |-> checked]

\* Index of the first command whose failure stops the list, or its length.
RECURSIVE StopsAt(_, _, _)
StopsAt(plan, oks, k) ==
    IF k > Len(plan) THEN Len(plan)
    ELSE IF plan[k].checked /\ ~oks[k] THEN k
    ELSE StopsAt(plan, oks, k + 1)

\* The commands that ran, with their exit status.
Executed(plan, oks) ==
    [k \in 1..StopsAt(plan, oks, 1) |-> [cmd |-> plan[k].cmd, ok |-> oks[k]]]

\* A checked command of the list failed.
Aborted(plan, oks) == \E k \in 1..Len(plan) : plan[k].checked /\ ~oks[k]

\* All ways the commands of a plan can end.
ExitStatuses(plan) == [1..Len(plan) -> BOOLEAN]

OthersUnchangedBySetup == UNCHANGED <<syncVars, vlmVars, uiVars, storeVars, sliceVars>>

\* `return status` of the sourced script.
Return(status) ==
    /\ returned' = status
    /\ sh_pc' = "returned"

HasRecipe(t) == "metro-vision-ai-app-recipe" \in t

\* $k: the k-th argument, empty when absent.
Arg(k) == IF k <= Len(argv) THEN argv[k] ELSE ""


\* ---- smart-traffic-intersection-agent/setup.sh -----------------------------------

\* Lines 14-47 and the dispatch of --stop / --clean: usage, argument count,
\* known option, --restart sub-argument.
ValidateArguments ==
    /\ script = "intersection" /\ sh_pc = "validate"
    /\ LET n == Len(argv) IN
       IF n = 0 \/ (n = 1 /\ Arg(1) = "--help")
         THEN printed' = printed \cup {"usage"} /\ Return(0)
       ELSE IF n > 2
         THEN printed' = printed \cup {"Too many arguments"} /\ Return(1)
       ELSE IF Arg(1) \notin IntersectionVerbs
         THEN printed' = printed \cup {"Unknown option"} /\ Return(1)
       ELSE IF Arg(1) = "--restart" /\ n = 2 /\ Arg(2) \notin {"agent", "prerequisite"}
         THEN printed' = printed \cup {"Invalid restart type"} /\ Return(1)
       ELSE /\ printed' = printed
            /\ returned' = returned
            /\ sh_pc' = CASE Arg(1) = "--stop"  -> "stop"
                          [] Arg(1) = "--clean" -> "clean"
                          [] OTHER               -> "prerequisites"
    /\ UNCHANGED <<script, argv, env, env_before, tree, exit_status, commands>>
    /\ OthersUnchangedBySetup

\* Lines 49-78, --stop: the agent's services are brought down and the status
\* tested; the recipe's services are brought down when the recipe and its
\* compose file exist, a failure there being a warning only.
StopPlan(t) ==
    <<Step("agent compose down", TRUE)>>
    \o (IF HasRecipe(t) /\ "compose.yaml" \in t
          THEN <<Step("recipe compose down", FALSE)>> ELSE <<>>)

StopServices(oks) ==
    /\ script = "intersection" /\ sh_pc = "stop"
    /\ commands' = commands \o Executed(StopPlan(tree), oks)
    /\ exit_status' = IF oks[1] THEN 0 ELSE 1
    /\ printed' = IF oks[1] THEN printed ELSE printed \cup {"Failed to stop services"}
    /\ Return(IF oks[1] THEN 0 ELSE 1)
    /\ UNCHANGED <<script, argv, env, env_before, tree>>
    /\ OthersUnchangedBySetup

\* Lines 80-117, --clean: every command is followed by `|| true`.
CleanPlan(t) ==
    <<Step("agent compose down", FALSE), Step("agent volume rm", FALSE)>>
    \o (IF "edge-ai-suites" \in t /\ HasRecipe(t) /\ "compose.yaml" \in t
          THEN <<Step("recipe compose down", FALSE), Step("recipe volume rm", FALSE)>>
          ELSE <<>>)

CleanServices(oks) ==
    /\ script = "intersection" /\ sh_pc = "clean"
    /\ commands' = commands \o Executed(CleanPlan(tree), oks)
    /\ exit_status' = 0
    /\ Return(0)
    /\ UNCHANGED <<script, argv, env, env_before, tree, printed>>
    /\ OthersUnchangedBySetup

\* Lines 132-236: clone when edge-ai-suites is missing, then the recipe
\* directory and install.sh must exist, then install.sh, compose up and
\* compose ps (whose status only selects a message).
NeedsClone(t) == "edge-ai-suites" \notin t
PrerequisitePlan(t) ==
    (IF NeedsClone(t) THEN <<Step("git clone", TRUE)>> ELSE <<>>)
    \o (IF NeedsClone(t) \/ (HasRecipe(t) /\ "install.sh" \in t)
          THEN <<Step("install.sh", TRUE), Step("recipe compose up", TRUE),
                 Step("recipe compose ps", FALSE)>>
          ELSE <<>>)

\* The function fails when a checked command fails or a path is missing.
PrerequisitesFail(t, oks) ==
    \/ Aborted(PrerequisitePlan(t), oks)
    \/ ~NeedsClone(t) /\ ~(HasRecipe(t) /\ "install.sh" \in t)

\* Lines 238-246: the function is called unless $1 is --stop, --clean, --help
\* or --restart; its failure ends the script with 1.
check_and_setup_prerequisites(oks) ==
    /\ script = "intersection" /\ sh_pc = "prerequisites"
    /\ IF Arg(1) \in {"--stop", "--clean", "--help", "--restart"}
         THEN /\ oks = [k \in 1..Len(PrerequisitePlan(tree)) |-> TRUE]
              /\ sh_pc' = "exports"
              /\ UNCHANGED <<commands, tree, exit_status, returned, printed>>
         ELSE /\ commands' = commands \o Executed(PrerequisitePlan(tree), oks)
              /\ tree' = IF NeedsClone(tree) /\ oks[1] THEN tree \cup ClonedTree ELSE tree
              /\ IF PrerequisitesFail(tree, oks)
                   THEN /\ exit_status' = 1
                        /\ printed' = printed \cup {"Failed to setup prerequisites"}
                        /\ Return(1)
                   ELSE /\ exit_status' = 0
                        /\ sh_pc' = "exports"
                        /\ UNCHANGED <<returned, printed>>
    /\ UNCHANGED <<script, argv, env, env_before>>
    /\ OthersUnchangedBySetup

\* Lines 288-291: a GPU deployment forces int4 weights and one worker.
GpuAdjusted(e) ==
    IF e.VLM_DEVICE = "GPU"
      THEN [e EXCEPT !.VLM_COMPRESSION_WEIGHT_FORMAT = "int4", !.VLM_WORKERS = "1"]
      ELSE e

\* Lines 253-297: export VAR=${VAR:-default} for each variable, then the GPU
\* adjustment.
ExportedEnvironment(e) ==
    GpuAdjusted([x \in EnvVars |-> WithDefault(e[x], Defaults[x])])

ExportDefaults ==
    /\ script = "intersection" /\ sh_pc = "exports"
    /\ env' = ExportedEnvironment(env)
    /\ sh_pc' = "main"
    /\ UNCHANGED <<script, argv, env_before, tree, exit_status, commands, returned, printed>>
    /\ OthersUnchangedBySetup

\* Lines 492-496: --setenv returns here.
SetenvReturns ==
    /\ script = "intersection" /\ sh_pc = "main"
    /\ Arg(1) = "--setenv"
    /\ Return(0)
    /\ UNCHANGED <<script, argv, env, env_before, tree, exit_status, commands, printed>>
    /\ OthersUnchangedBySetup

\* Lines 511-516: the status of the selected function decides the result.
Finish(plan, oks, failed) ==
    /\ commands' = commands \o Executed(plan, oks)
    /\ exit_status' = IF failed THEN 1 ELSE 0
    /\ printed' = IF failed THEN printed \cup {"Operation failed"} ELSE printed \cup {"Done"}
    /\ Return(IF failed THEN 1 ELSE 0)
    /\ UNCHANGED <<script, argv, env, env_before, tree>>
    /\ OthersUnchangedBySetup

\* Lines 303-326 and case --setup.
BuildPlan == <<Step("agent compose up --build", TRUE)>>
build_and_start_service(oks) ==
    /\ script = "intersection" /\ sh_pc = "main"
    /\ Arg(1) = "--setup"
    /\ Finish(BuildPlan, oks, Aborted(BuildPlan, oks))

\* Lines 329-352 and case --run|*: every other first argument starts the
\* services.
StartPlan == <<Step("agent compose up", TRUE)>>
start_service(oks) ==
    /\ script = "intersection" /\ sh_pc = "main"
    /\ Arg(1) \notin {"--setenv", "--setup", "--restart"}
    /\ Finish(StartPlan, oks, Aborted(StartPlan, oks))

\* Lines 355-490: SERVICE_TYPE is $2 or "all".  agent and prerequisite test
\* the status of down and of up; all tests only the status of each up.
SERVICE_TYPE(args) == IF Len(args) >= 2 /\ args[2] # "" THEN args[2] ELSE "all"
RestartPlan(type, t) ==
    CASE type = "agent" ->
           <<Step("agent compose down", TRUE), Step("agent compose up", TRUE)>>
      [] type = "prerequisite" ->
           IF HasRecipe(t)
             THEN <<Step("recipe compose down", TRUE), Step("recipe compose up", TRUE)>>
             ELSE <<>>
      [] type = "all" ->
           (IF HasRecipe(t)
              THEN <<Step("recipe compose down", FALSE), Step("recipe compose up", TRUE)>>
              ELSE <<>>)
           \o <<Step("agent compose down", FALSE), Step("agent compose up", TRUE)>>
      [] OTHER -> <<>>

restart_service(oks) ==
    /\ script = "intersection" /\ sh_pc = "main"
    /\ Arg(1) = "--restart"
    /\ LET type == SERVICE_TYPE(argv)
           plan == RestartPlan(type, tree)
       IN  Finish(plan, oks, \/ Aborted(plan, oks)
                             \/ type = "prerequisite" /\ ~HasRecipe(tree))


\* ---- smart-route-planning-agent/setup.sh -----------------------------------------

\* Lines 54-64: no argument or `help` shows the usage and returns 0; more than
\* one argument is an error.
RouteValidateArguments ==
    /\ script = "route" /\ sh_pc = "validate"
    /\ LET n == Len(argv) IN
       IF n = 0 \/ Arg(1) = "help"
         THEN printed' = printed \cup {"usage"} /\ Return(0)
       ELSE IF n > 1
         THEN printed' = printed \cup {"Too many arguments"} /\ Return(1)
       ELSE /\ sh_pc' = "exports"
            /\ UNCHANGED <<printed, returned>>
    /\ UNCHANGED <<script, argv, env, env_before, tree, exit_status, commands>>
    /\ OthersUnchangedBySetup

\* Lines 78-111: export VAR=${VAR:-default}; of the modelled variables the
\* route script exports TAG and LOG_LEVEL.
RouteExportedEnvironment(e) ==
    [x \in EnvVars |-> IF x \in DefaultedBy("route")
                         THEN WithDefault(e[x], Defaults[x]) ELSE e[x]]

RouteExportDefaults ==
    /\ script = "route" /\ sh_pc = "exports"
    /\ env' = RouteExportedEnvironment(env)
    /\ sh_pc' = "check_docker"
    /\ UNCHANGED <<script, argv, env_before, tree, exit_status, commands, returned, printed>>
    /\ OthersUnchangedBySetup

\* Lines 41-51 and 151-154: without docker compose the script returns 1.
check_docker_compose(ok) ==
    /\ script = "route" /\ sh_pc = "check_docker"
    /\ commands' = Append(commands, [cmd |-> "docker compose version", ok |-> ok])
    /\ exit_status' = IF ok THEN 0 ELSE 1
    /\ IF ok THEN sh_pc' = "main" /\ returned' = returned ELSE Return(1)
    /\ printed' = IF ok THEN printed ELSE printed \cup {"Docker Compose is not available"}
    /\ UNCHANGED <<script, argv, env, env_before, tree>>
    /\ OthersUnchangedBySetup

\* Lines 119-147 and the case of lines 157-200.
RoutePlan(verb) ==
    CASE verb = "setup"   -> <<Step("route compose build", TRUE), Step("route compose up", TRUE)>>
      [] verb = "build"   -> <<Step("route compose build", TRUE)>>
      [] verb = "up"      -> <<Step("route compose up", TRUE)>>
      [] verb = "down"    -> <<Step("route compose down", TRUE)>>
      [] verb = "restart" -> <<Step("route compose down", TRUE), Step("route compose up", TRUE)>>
      [] OTHER            -> <<>>

\* Lines 157-207: the verb's commands, `Unknown command` for any other
\* word, and the final status test.
RouteCase(oks) ==
    /\ script = "route" /\ sh_pc = "main"
    /\ LET plan == RoutePlan(Arg(1))
           unknown == Arg(1) \notin RouteCases
           failed == unknown \/ Aborted(plan, oks)
       IN  /\ commands' = commands \o Executed(plan, oks)
           /\ exit_status' = IF failed THEN 1 ELSE 0
           /\ printed' = printed \cup (IF unknown THEN {"Unknown command"}
                                       ELSE IF failed THEN {"Operation failed"}
                                       ELSE {"Done"})
           /\ Return(IF failed THEN 1 ELSE 0)
    /\ UNCHANGED <<script, argv, env, env_before, tree>>
    /\ OthersUnchangedBySetup

\* ---- a run of either script ------------------------------------------------------

InitSetup ==
    /\ script \in {"intersection", "route"}
    /\ argv \in ArgvInputs(script)
    /\ env \in EnvInputs
    /\ env_before = env
    /\ tree \in TreeInputs
    /\ sh_pc = "validate"
    /\ exit_status = 0
    /\ commands = <<>>
    /\ returned = 0
    /\ printed = {}
    /\ SyncIdle /\ VlmIdle /\ UiIdle /\ StoreIdle /\ SliceIdle

NextSetup ==
    \/ ValidateArguments
    \/ \E oks \in ExitStatuses(StopPlan(tree)) : StopServices(oks)
    \/ \E oks \in ExitStatuses(CleanPlan(tree)) : CleanServices(oks)
    \/ \E oks \in ExitStatuses(PrerequisitePlan(tree)) : check_and_setup_prerequisites(oks)
    \/ ExportDefaults
    \/ SetenvReturns
    \/ \E oks \in ExitStatuses(BuildPlan) : build_and_start_service(oks)
    \/ \E oks \in ExitStatuses(StartPlan) : start_service(oks)
    \/ \E oks \in ExitStatuses(RestartPlan(SERVICE_TYPE(argv), tree)) : restart_service(oks)
    \/ RouteValidateArguments
    \/ RouteExportDefaults
    \/ \E ok \in BOOLEAN : check_docker_compose(ok)
    \/ \E oks \in ExitStatuses(RoutePlan(Arg(1))) : RouteCase(oks)

SpecSetup == InitSetup /\ [][NextSetup]_vars

\* The run has returned.
Returned == sh_pc = "returned"


\* ---- properties of the setup scripts ---------------------------------------------

\* Invocations of the intersection script that are not a verb with the
\* arguments it accepts: an unrecognized verb, a second argument to a verb
\* other than --restart, more than two arguments, a --restart sub-argument
\* other than agent or prerequisite.
Malformed(args) ==
    \/ Len(args) >= 1 /\ args[1] \notin IntersectionVerbs
    \/ Len(args) > 2
    \/ Len(args) = 2 /\ args[1] # "--restart"
    \/ Len(args) = 2 /\ args[1] = "--restart" /\ args[2] \notin {"agent", "prerequisite"}

Diagnostics == {"Too many arguments", "Unknown option", "Invalid restart type"}

\* C22: the intersection-agent setup.sh, given an unrecognized verb, more
\* arguments than the verb accepts or a bad --restart sub-argument, runs no
\* docker or prerequisite command, and returns non-zero with a diagnostic.
C22_MalformedArgumentsRejected ==
    (script = "intersection" /\ Malformed(argv)) =>
        /\ commands = <<>>
        /\ Returned => (returned # 0 /\ printed \cap Diagnostics # {})

\* C23: every variable the running script gives a default keeps the value it
\* had in the environment before the run, when it had one.
C23_PresetValuesKept ==
    script \in {"intersection", "route"} =>
        \A x \in DefaultedBy(script) :
            env_before[x] # Unset => env[x] = env_before[x]

\* C24: a run of the intersection-agent setup.sh with --setenv alone runs no
\* command (no container started, no repository cloned, no installer run)
\* and leaves the working tree as it was.
C24_SetenvOnlyExports ==
    [][(script = "intersection" /\ argv = <<"--setenv">>) =>
          (commands' = <<>> /\ tree' = tree)]_vars

\* The steps the scripts run whose failure is to stop the verb.
VerbSteps ==
    {"git clone", "install.sh", "agent compose down", "agent compose up",
     "agent compose up --build", "recipe compose down", "recipe compose up",
     "route compose build", "route compose up", "route compose down"}

\* C25: in every verb of both scripts, a git clone, install.sh or docker
\* compose down / up / build that exits non-zero is the last command the run
\* executes, and the run returns non-zero.
C25_FailedStepStopsVerb ==
    \A k \in 1..Len(commands) :
        (commands[k].cmd \in VerbSteps /\ ~commands[k].ok) =>
            /\ k = Len(commands)
            /\ Returned => returned # 0

\* C26: the route-planning setup.sh, given one verb of its user guide, returns
\* zero when every docker command it ran succeeded, and prints `Unknown
\* command` only for a verb the guide does not document.
C26_DocumentedVerbsAccepted ==
    (script = "route" /\ Len(argv) = 1 /\ Returned) =>
        /\ (argv[1] \in RouteDocumentedVerbs /\ \A k \in 1..Len(commands) : commands[k].ok)
              => returned = 0
        /\ "Unknown command" \in printed => argv[1] \notin RouteDocumentedVerbs


\* ---- properties of the upload flow's transcript stream ---------------------------

\* C27: in the upload flow's transcript stream the first 'transcript' event
\* moves audioStatus to 'transcribing' (it was not there before) and a later
\* one leaves it alone, 'done' moves it to 'summarizing' and 'error' to
\* 'error'; a token is appended only by a 'transcript' event of a running
\* stream, never after the stream's 'done' or 'error'.
C27_StreamDrivesAudioStatus ==
    [][/\ \A k \in TaskIds :
            /\ StreamEvent(k, "transcript") =>
                  IF tasks[k].sentFirst
                    THEN ui'.audioStatus = ui.audioStatus
                    ELSE ui.audioStatus # "transcribing" /\ ui'.audioStatus = "transcribing"
            /\ StreamEvent(k, "done") => ui'.audioStatus = "summarizing"
            /\ StreamEvent(k, "error") => ui'.audioStatus = "error"
       /\ transcript'.tokens > transcript.tokens =>
            /\ transcript.status # "done"
            /\ \E k \in TaskIds : StreamEvent(k, "transcript")]_vars

\* A stream that delivered every token and then 'done'.
C27_Witness ==
    /\ ui.uploadedAudioPath = "audio.wav"
    /\ transcript.status = "done" /\ transcript.tokens = MaxTokens
    /\ ui.audioStatus = "summarizing"
    /\ \A k \in TaskIds : tasks[k].kind # "stream"


(***************************************************************************)
(* Part F.  The ui slice on its own: any component may dispatch any of     *)
(* its actions in any order (UploadFilesModal.tsx 626-908).                *)
(***************************************************************************)

MaxDispatches == 4
Tabs == {"transcripts", "summary", "mindmap"}

\* setActiveTab (742-744)
setActiveTab(s, tab) == [s EXCEPT !.activeTab = tab]

\* Actions dispatched to the slice; setActiveTab carries the tab.
SliceActions ==
    {[type |-> t, payload |-> "none"] :
        t \in {"startProcessing", "resetFlow", "transcriptionComplete", "processingFailed",
               "firstSummaryToken", "summaryDone", "mindmapSuccess"}}
    \cup {[type |-> "setActiveTab", payload |-> tab] : tab \in Tabs}

\* The slice's reducer.
Reduce(s, action) ==
    CASE action.type = "startProcessing"       -> startProcessing(s)
      [] action.type = "resetFlow"             -> resetFlow(s)
      [] action.type = "transcriptionComplete" -> transcriptionComplete(s)
      [] action.type = "processingFailed"      -> processingFailed(s)
      [] action.type = "firstSummaryToken"     -> firstSummaryToken(s)
      [] action.type = "summaryDone"           -> summaryDone(s)
      [] action.type = "mindmapSuccess"        -> mindmapSuccess(s)
      [] action.type = "setActiveTab"          -> setActiveTab(s, action.payload)

Dispatch(action) ==
    /\ Len(dispatched) < MaxDispatches
    /\ slice' = Reduce(slice, action)
    /\ dispatched' = Append(dispatched, action)
    /\ UNCHANGED <<syncVars, vlmVars, uiVars, storeVars, setupVars>>

InitSlice ==
    /\ slice = initialState
    /\ dispatched = <<>>
    /\ SyncIdle /\ VlmIdle /\ UiIdle /\ StoreIdle /\ SetupIdle

NextSlice == \E action \in SliceActions : Dispatch(action)

SpecSlice == InitSlice /\ [][NextSlice]_vars

\* The actions of the current session: those dispatched since the last
\* resetFlow or startProcessing.
RECURSIVE SessionStart(_, _)
SessionStart(history, k) ==
    IF k = 0 THEN 1
    ELSE IF history[k].type \in {"resetFlow", "startProcessing"} THEN k + 1
    ELSE SessionStart(history, k - 1)

Session(history) == SubSeq(history, SessionStart(history, Len(history)), Len(history))

CompletedInSession(history) ==
    \E k \in 1..Len(Session(history)) : Session(history)[k].type = "transcriptionComplete"

\* C28: within one session the first transcriptionComplete sets activeTab to
\* 'summary' and every later one leaves activeTab as it is, whichever tab has
\* been selected in between.
C28_AutoSwitchOncePerSession ==
    [][Dispatch([type |-> "transcriptionComplete", payload |-> "none"]) =>
          IF CompletedInSession(dispatched)
            THEN slice'.activeTab = slice.activeTab
            ELSE slice'.activeTab = "summary"]_vars

\* transcriptionComplete, another tab selected, transcriptionComplete again in
\* the same session: the selected tab is still the active one.
C28_Witness ==
    /\ Len(dispatched) >= 3
    /\ LET n == Len(dispatched) IN
         /\ dispatched[n].type = "transcriptionComplete"
         /\ dispatched[n - 1].type = "setActiveTab"
         /\ dispatched[n - 1].payload # "summary"
         /\ dispatched[n - 2].type = "transcriptionComplete"
         /\ slice.activeTab = dispatched[n - 1].payload


\* ---- properties of the video start in the upload and recording flows -------------

\* C29: in an upload with an audio file, whatever the video request answers
\* (pipelines up, every pipeline failed, or the request threw), the step
\* that handles the answer starts the transcript stream.
C29_VideoFailureKeepsTranscript ==
    [][\A k \in TaskIds :
          (tasks[k].kind = "upload" /\ tasks[k].pc = "startVideo" /\ tasks[k].audio) =>
              \A outcome \in VideoOutcomes(tasks[k].cams) :
                  UploadVideoDone(k, outcome) =>
                      \E j \in 1..Len(tasks') :
                          /\ tasks'[j].kind = "stream"
                          /\ tasks'[j].session = tasks[k].session]_vars

\* An upload with audio whose video failed and whose transcript is streaming.
C29_Witness ==
    /\ ui.hasUploadedVideoFiles /\ ui.videoStatus = "failed"
    /\ ui.uploadedAudioPath = "audio.wav"
    /\ \E k \in TaskIds : tasks[k].kind = "stream"
    /\ transcript.tokens > 0

\* The pipelines whose stream handle is set.
StreamsSet(s) == {n \in Pipelines : s[StreamField(n)] # ""}

\* C30: when a video start request for the pipelines of a recording or an
\* upload answers with results, then with at least one pipeline up
\* videoAnalyticsActive is true, videoStatus is 'streaming' and the stream
\* handles set are exactly those of the pipelines that came up; with none up
\* videoStatus is 'failed' and videoAnalyticsActive is false.
C30_PartialVideoSuccess ==
    [][\A k \in TaskIds :
          tasks[k].pc = "startVideo" =>
              \A outcome \in VideoOutcomes(tasks[k].cams) :
                  (outcome.kind = "results"
                     /\ (StartVideoDone(k, outcome) \/ UploadVideoDone(k, outcome))) =>
                      IF outcome.up # {}
                        THEN /\ ui'.videoAnalyticsActive
                             /\ ui'.videoStatus = "streaming"
                             /\ StreamsSet(ui') = outcome.up
                        ELSE /\ ui'.videoStatus = "failed"
                             /\ ~ui'.videoAnalyticsActive]_vars


\* ---- properties of the recording start -------------------------------------------

\* C31: when startMonitoring fails in a recording start, the same step sets
\* isRecording, marks the microphone transcription started when the
\* recording has a microphone (uploadedAudioPath 'MICROPHONE'; audioStatus is
\* 'recording' once setIsRecording(true) has followed startTranscription),
\* sends the video start request when a camera is configured, and sets no
\* error message (errorMsg stays what it was).
C31_MonitoringFailureContinues ==
    [][\A k \in TaskIds :
          (tasks[k].kind = "start" /\ tasks[k].pc = "startMonitoring"
             /\ StartMonitoringDone(k, FALSE)) =>
              /\ ui'.isRecording
              /\ tasks[k].mic =>
                    (ui'.uploadedAudioPath = "MICROPHONE" /\ ui'.audioStatus = "recording")
              /\ tasks[k].cams # {} =>
                    (/\ Len(tasks') = Len(tasks)
                     /\ tasks'[k].pc = "startVideo"
                     /\ ui'.videoStatus = "starting")
              /\ header'.errorMsg = header.errorMsg]_vars

\* A recording with microphone and camera whose startMonitoring failed: no
\* timer was ever stored, the recording runs and the video request is out.
C31_Witness ==
    /\ ui.isRecording /\ ui.uploadedAudioPath = "MICROPHONE"
    /\ header.monitoringTimer = 0 /\ backend.monitoring = 0
    /\ header.errorMsg = "none"
    /\ \E k \in TaskIds : tasks[k].kind = "start" /\ tasks[k].pc = "startVideo"


(***************************************************************************)
(* Further claims on ImageSync                                              *)
(***************************************************************************)

\* Every image a stream has handed in so far: still waiting in its map,
\* delivered in a pair, discarded, or held by the ingest call in progress.
SeenImages(t) ==
    {x \in ({rgb_map[i] : i \in DOMAIN rgb_map} \cup {depth_map[i] : i \in DOMAIN depth_map}
              \cup {fired[i][1] : i \in 1..Len(fired)} \cup {fired[i][2] : i \in 1..Len(fired)}
              \cup dropped \cup {local[u].msg : u \in Threads}) : x.stream = t}

\* The header stamps of a stream never go back.
NonDecreasing(t) ==
    \A x \in SeenImages(t), y \in SeenImages(t) : x.k < y.k => x.nanosec <= y.nanosec

\* The images of stream t that wait in its map.
WaitingImages(t) ==
    IF t = "rgb" THEN {rgb_map[i] : i \in DOMAIN rgb_map} \ {NullImage}
                 ELSE {depth_map[i] : i \in DOMAIN depth_map} \ {NullImage}

\* Header timestamps (sec*1e9 + nanosec, same sec) closer than the tolerance.
StampsWithinTolerance(x, y) ==
    AbsDiff(x.nanosec, y.nanosec) < acceptable_synchronization_error_nanoseconds

\* Discarding image f against the head d of the other stream's queue is what
\* the discard rule allows.
DiscardJustified(f, d) ==
    /\ ~StampsWithinTolerance(f, d)
    /\ f.nanosec < d.nanosec
    /\ (NonDecreasing("rgb") /\ NonDecreasing("depth")) =>
          /\ \A g \in WaitingImages(d.stream) : ~StampsWithinTolerance(f, g)
          \* a later frame of the other stream is stamped no earlier than its latest one
          /\ \A g \in SeenImages(d.stream) :
                (\A h \in SeenImages(d.stream) : h.k <= g.k) =>
                    g.nanosec >= f.nanosec + acceptable_synchronization_error_nanoseconds

\* C32: a waiting frame is discarded only when the head of the other stream's
\* queue differs from it by at least the tolerance, the discarded frame is the
\* older head, and with non-decreasing stamps in each stream no frame within
\* tolerance of it is waiting or can still arrive on the other stream.
C32_DiscardOnlyBeyondTolerance ==
    [][\A t \in Threads :
          /\ (BothNonEmpty /\ DiscardRgbReset(t)) =>
                DiscardJustified(MapIndex(rgb_map, Head(queue_rgb)[2]),
                                 MapIndex(depth_map, Head(queue_depth)[2]))
          /\ (BothNonEmpty /\ DiscardDepthReset(t)) =>
                DiscardJustified(MapIndex(depth_map, Head(queue_depth)[2]),
                                 MapIndex(rgb_map, Head(queue_rgb)[2]))]_vars


\* The images handed to the pairing callback in its i-th invocation.
DeliveredIn(i) == {fired[i][1], fired[i][2]} \ {NullImage}

\* C33: with callback_rgb and callback_depth running on two threads, every
\* ingested frame is passed to the pairing callback at most once and is never
\* both delivered in a pair and discarded.
C33_DeliveredAtMostOnce ==
    /\ \A i \in 1..Len(fired), j \in 1..Len(fired) :
          i # j => DeliveredIn(i) \cap DeliveredIn(j) = {}
    /\ \A i \in 1..Len(fired) : DeliveredIn(i) \cap dropped = {}


\* No call of callback_rgb or callback_depth is executing.
NoIngestExecuting == \A t \in Threads : pc[t] = "idle"

\* C34: whenever no ingest call is executing, at least one of queue_rgb and
\* queue_depth is empty: frames wait on at most one stream at a time.
C34_OneQueueEmptyAtRest ==
    NoIngestExecuting => (queue_rgb = <<>> \/ queue_depth = <<>>)

\* Two colour frames arrived, the older was discarded against a depth frame
\* and the newer still waits, alone, after the call has returned.
C34_Witness ==
    /\ NoIngestExecuting
    /\ ingested["rgb"] = 2
    /\ ingested["depth"] >= 1
    /\ \E x \in dropped : x.stream = "rgb"
    /\ Len(queue_rgb) + Len(queue_depth) = 1


(***************************************************************************)
(* Further claims on the smart-classroom session UI                         *)
(***************************************************************************)

\* The start sequences between the toggle-on click and their setIsRecording(true).
StartsInFlight ==
    {k \in TaskIds : tasks[k].kind = "start"
                       /\ tasks[k].pc \in {"createSession", "startMonitoring"}}

\* C35: while a recording-start sequence is in flight the record control is
\* disabled, and no second start sequence runs beside it, with or without a
\* microphone.
C35_StartDisablesRecordControl ==
    StartsInFlight # {} =>
        /\ IsRecordingDisabled(ui, transcript, mindmap)
        /\ Cardinality(StartsInFlight) = 1


\* The recording of the last stop click is over: the stop path has run to its
\* end, nothing is pending and no later session has been opened.
RecordingOver ==
    /\ hist.stopDone
    /\ ~ui.isRecording
    /\ tasks = <<>>
    /\ ui.sessionId = hist.session

\* C36: after a recording is toggled off and every outstanding request has
\* completed, videoAnalyticsActive is false and every camera pipeline started
\* for the session has been sent a stop request.
C36_NoPipelineLeftRunning ==
    RecordingOver =>
        /\ ~ui.videoAnalyticsActive
        /\ backend.video # {} => hist.videoStopSent


\* C37: when createSession fails after the record control was toggled on, the
\* flow ends with isRecording false, aiProcessing false, audioStatus 'error'
\* and the inline error message set, arms no monitoring timer for the failed
\* attempt, and leaves the record control enabled for a retry.
C37_CreateSessionFailure ==
    [][\A k \in TaskIds :
          (tasks[k].kind = "start" /\ tasks[k].pc = "createSession"
             /\ CreateSessionDone(k, FALSE)) =>
              /\ ~ui'.isRecording
              /\ ~ui'.aiProcessing
              /\ ui'.audioStatus = "error"
              /\ header'.errorMsg = "failedToStartRecording"
              /\ backend'.timers \subseteq backend.timers
              /\ header'.monitoringTimer \in {0, header.monitoringTimer}
              /\ ~IsRecordingDisabled(ui', transcript', mindmap')]_vars


\* C38: once the video-analytics start request of a recording has completed,
\* whatever the backend returned, videoStatus is 'streaming', 'failed' or
\* 'no-config' and no longer 'starting'.
C38_StartRequestLeavesStarting ==
    [][\A k \in TaskIds : \A outcome \in VideoOutcomes(Pipelines) :
          (tasks[k].kind = "start" /\ tasks[k].pc = "startVideo"
             /\ StartVideoDone(k, outcome)) =>
              ui'.videoStatus \in {"streaming", "failed", "no-config"}]_vars


\* A summary or a mind-map generation, or the transcript of a stopped
\* microphone recording, is still to end.
GenerationPending ==
    \/ ui.summaryEnabled /\ (ui.summaryLoading \/ ~ui.mindmapEnabled)
    \/ ui.mindmapEnabled /\ ui.mindmapLoading
    \/ /\ ui.uploadedAudioPath = "MICROPHONE"
       /\ ui.aiProcessing
       /\ ~ui.summaryEnabled

\* No recording is in progress and no operation is outstanding: no request is
\* awaited, no stream is read, no generation is running, the device probe has
\* been answered.
NothingOutstanding ==
    /\ ~ui.isRecording
    /\ tasks = <<>>
    /\ ~ui.audioDevicesLoading
    /\ ~GenerationPending

\* C39: whenever no recording is in progress and no operation is outstanding,
\* the upload control is enabled, and the record control is enabled if a
\* microphone or a camera is available.
C39_ControlsNeverStuck ==
    NothingOutstanding =>
        /\ ~IsUploadDisabled(ui, transcript, mindmap)
        /\ (ui.hasAudioDevices \/ HasVideoCapability(ui)) =>
               ~IsRecordingDisabled(ui, transcript, mindmap)


\* C40: monitoring started for a recording session stays active until that
\* session's own 45-minute timer fires: the step in which a later session's
\* startMonitoring answers leaves that session monitored, and monitoring of
\* the session that owns the header's timer ends only when that timer fires.
C40_MonitoringStaysActive ==
    [][/\ \A k \in TaskIds :
             (tasks[k].kind = "start" /\ tasks[k].pc = "startMonitoring"
                /\ StartMonitoringDone(k, TRUE)) =>
                 backend'.monitoring = tasks[k].session
       /\ (/\ backend.monitoring # 0
           /\ backend.monitoring = header.monitoringTimer
           /\ backend'.monitoring = 0) =>
              TimerFires(backend.monitoring)]_vars

====
